---- MODULE Spec2Model ----
(***************************************************************************)
(* State-machine model of pylim.DataTools.BaseDataObject: the data object  *)
(* with its databins, its operation history, its time coordinates and the  *)
(* transform pipeline (resample, running mean, anomaly, detrend, area      *)
(* weighting, standardization, EOF projection), reset_data and copy.       *)
(*                                                                         *)
(* Arrays are modelled by their shape and by an abstract content tag;      *)
(* array identity (which ndarray object a name refers to) is modelled by   *)
(* an address into a heap, so that aliasing between `data`, the databins   *)
(* and the objects produced by copy() is explicit.                         *)
(***************************************************************************)
EXTENDS Integers, Sequences, FiniteSets, TLC

(***************************************************************************)
(* Bounds of the model                                                     *)
(***************************************************************************)
NSamples == 6      \* length of the sampling dimension of the input data
NSpatial == 3      \* number of (flattened) spatial points of the input data
MaxOps == 2          \* calls made in one behaviour of Spec
MaxPipelineOps == 4  \* calls made in one behaviour of SpecPipeline
MaxCopyOps == 3      \* calls made in one behaviour of SpecCopy
MaxDeepOps == 4      \* calls made in one behaviour of SpecDeep
MaxAvg == 2        \* largest nsamples_in_avg passed to time_average_resample
MaxShift == 1      \* largest shift passed to time_average_resample
MaxWindow == 2     \* largest window_size passed to calc_running_mean
MaxYearLen == 2    \* largest year_len passed to calc_running_mean
MaxSeriesLen == 26      \* longest series the trim is computed for
MaxTrimWindow == 13     \* largest window_size the trim is computed for
MaxTrimYearLen == 13    \* largest year_len the trim is computed for

(***************************************************************************)
(* Static databin keys (class attributes of BaseDataObject)                *)
(***************************************************************************)
_COMPRESSED == "compressed_data"
_ORIGDATA == "orig"
_DETRENDED == "detrended"
_AWGHT == "area_weighted"
_RUNMEAN == "running_mean"
_ANOMALY == "anomaly"
_STD == "standardized"
_EOFPROJ == "eof_proj"

\* the key the callers of time_average_resample pass for the resampled bin
ResampleKey == "resampled"

StaticKeys == {_COMPRESSED, _ORIGDATA, _DETRENDED, _AWGHT, _RUNMEAN,
               _ANOMALY, _STD, _EOFPROJ}
Keys == StaticKeys \cup {ResampleKey}

\* Python's None, for names that hold a key
NoneKey == "None"
\* Python's None, for names that hold an array
NoneRef == 0
\* an empty dict
EmptyDict == [k \in {} |-> 0]

(***************************************************************************)
(* Python helpers                                                          *)
(***************************************************************************)
Min(a, b) == IF a < b THEN a ELSE b
Max(a, b) == IF a < b THEN b ELSE a

\* An optional integer (None or an int) is <<>> or <<v>>.
NoneInt == <<>>
Some(v) == <<v>>

\* Normalisation of one bound of a slice against a sequence of length len
\* (what slice.indices() does): a bound counted from the end has len added,
\* and the bound is clipped to [0, len] for a positive step and to
\* [-1, len - 1] for a negative one.
SliceBound(b, len, step, dflt) ==
    LET lower == IF step < 0 THEN -1 ELSE 0
        upper == IF step < 0 THEN len - 1 ELSE len
    IN  IF b = NoneInt THEN dflt
        ELSE IF b[1] < 0 THEN Max(b[1] + len, lower)
        ELSE Min(b[1], upper)

\* The 0-based indices selected by slice(start, stop, step), step # 0, in a
\* sequence of length len: upwards from start for a positive step, downwards
\* for a negative one, stop excluded.
SliceIndices(len, start, stop, step) ==
    LET lo == SliceBound(start, len, step, IF step < 0 THEN len - 1 ELSE 0)
        hi == SliceBound(stop, len, step, IF step < 0 THEN -1 ELSE len)
        n == IF step > 0 /\ hi > lo THEN (hi - lo + step - 1) \div step
             ELSE IF step < 0 /\ hi < lo THEN (lo - hi - step - 1) \div (-step)
             ELSE 0
    IN  [i \in 1..n |-> lo + (i - 1) * step]

\* seq[start:stop:step]
PySlice(seq, start, stop, step) ==
    LET idx == SliceIndices(Len(seq), start, stop, step)
    IN  [i \in 1..Len(idx) |-> seq[idx[i] + 1]]

\* len(a[start:stop:step]) for an array with a leading dimension of len
PySliceLen(len, start, stop, step) == Len(SliceIndices(len, start, stop, step))

\* whether `to[:] = x` is accepted by numpy for x of shape from
IsBroadcastable(from, to) ==
    /\ Len(from) = Len(to)
    /\ \A i \in 1..Len(from) : from[i] = to[i] \/ from[i] = 1

\* the number of elements of an array of shape shp
RECURSIVE Product(_)
Product(shp) == IF shp = <<>> THEN 1 ELSE Head(shp) * Product(Tail(shp))

RECURSIVE SumOf(_)
SumOf(seq) == IF seq = <<>> THEN 0 ELSE Head(seq) + SumOf(Tail(seq))

\* np.unravel_index(k, shape) and np.ravel_multi_index(idx, shape), in
\* row-major order, positions counted from 0
Unravel(k, shape) ==
    [j \in 1..Len(shape) |->
        (k \div Product(SubSeq(shape, j + 1, Len(shape)))) % shape[j]]
Ravel(idx, shape) ==
    SumOf([j \in 1..Len(shape) |->
              idx[j] * Product(SubSeq(shape, j + 1, Len(shape)))])

\* the shape two shapes broadcast to, <<FALSE, ...>> when they do not
Broadcast(a, b) ==
    LET n == Max(Len(a), Len(b))
        pad(x) == [j \in 1..(n - Len(x)) |-> 1] \o x
        pa == pad(a)
        pb == pad(b)
    IN  IF \E j \in 1..n : pa[j] # pb[j] /\ pa[j] # 1 /\ pb[j] # 1
        THEN <<FALSE, <<>>>>
        ELSE <<TRUE, [j \in 1..n |-> IF pa[j] = 1 THEN pb[j] ELSE pa[j]]>>

(***************************************************************************)
(* The heap of arrays                                                      *)
(***************************************************************************)
\* as many addresses as names that can hold an array, and a few for the
\* arrays a call creates before it drops the ones they replace
Addrs == 1..(2 * (Cardinality(Keys) + 1) + 4)

\* An array: its shape, the stage whose result it holds, whether it was
\* written in place by the caller afterwards, and the array whose memory it
\* is a view on (None for an array that owns its memory).
NoBuf == [shape |-> <<>>, stage |-> NoneKey, dirty |-> FALSE, base |-> NoneRef]
Buf(shape, stage, dirty) ==
    [shape |-> shape, stage |-> stage, dirty |-> dirty, base |-> NoneRef]

\* the array that owns the memory of array a
Owner(h, a) == IF h[a].base = NoneRef THEN a ELSE h[a].base

\* a[start:stop]: a basic slice is a new array object on the memory of a
View(h, a, shape) ==
    [shape |-> shape, stage |-> h[a].stage, dirty |-> h[a].dirty,
     base |-> Owner(h, a)]

\* whether arrays a and b share their memory
SameMemory(h, a, b) == Owner(h, a) = Owner(h, b)

\* np.empty / a fresh result array: the lowest address not in use
Alloc(h) == CHOOSE a \in Addrs : h[a] = NoBuf /\ \A b \in Addrs : h[b] = NoBuf => a <= b

VARIABLES
    objs,   \* the data objects: 1 is constructed, 2 is produced by copy()
    heap,   \* the arrays the objects refer to
    last,   \* the last call: its name, its object, the exception it raised
    nops    \* number of calls made so far

vars == <<objs, heap, last, nops>>

ObjIds == {1, 2}
NoObj == [exists |-> FALSE]
NoErr == "none"

\* The dicts an object holds and changes in place (_dim_coords by
\* _set_time_coord, the transforms and save_dataobj_pckl, the other three
\* by every stage).  The attribute `dicts` gives, for each of them, which
\* dict object it is (its id()): two objects that hold the same dict object
\* both show what either of them stores in it.  Every other attribute is
\* only ever rebound on the object itself, and the lists and arrays kept
\* in the dicts are replaced, never changed in place, except for the data
\* arrays, which are on the heap.
OwnDicts ==
    [_data_bins |-> 1, _ops_performed |-> 1, _altered_time_coords |-> 1,
     _dim_coords |-> 1]

\* a dict object created by a call: one that the object called does not hold
\* (the only other holder, the object the call replaces, is dropped)
NewDict(id) == 3 - id

\* object p after a call left the other object as o
Aliased(p, o) ==
    IF ~p.exists \/ ~o.exists THEN p
    ELSE [p EXCEPT
             !._data_bins =
                 IF p.dicts._data_bins = o.dicts._data_bins
                 THEN o._data_bins ELSE @,
             !._ops_performed =
                 IF p.dicts._ops_performed = o.dicts._ops_performed
                 THEN o._ops_performed ELSE @,
             !._altered_time_coords =
                 IF p.dicts._altered_time_coords = o.dicts._altered_time_coords
                 THEN o._altered_time_coords ELSE @,
             !.time_coord =
                 IF p.dicts._dim_coords = o.dicts._dim_coords
                 THEN o.time_coord ELSE @]

\* The arrays an object refers to
Roots(o) ==
    IF ~o.exists THEN {}
    ELSE ({o.data} \cup {o._data_bins[k] : k \in DOMAIN o._data_bins}) \ {NoneRef}

\* Arrays nothing refers to any more are collected; a view keeps the array
\* it is a view on
Collect(h, os) ==
    LET held == UNION {Roots(os[i]) : i \in ObjIds}
        live == held \cup {Owner(h, a) : a \in held}
    IN  [a \in Addrs |-> IF a \in live THEN h[a] ELSE NoBuf]

\* result of a method: the object, the heap and the exception raised
Res(o, h, err) == [o |-> o, h |-> h, err |-> err]

\* let x = r in K(x), with r computed once
Then(r, K(_)) == CHOOSE y \in {K(x) : x \in {r}} : TRUE

\* result of a step that creates or fills an array: .ref is the array
Ref(o, h, ref, err) == [o |-> o, h |-> h, ref |-> ref, err |-> err]

(***************************************************************************)
(* Bookkeeping methods                                                     *)
(***************************************************************************)
_set_curr_data_key(o, new_key) == [o EXCEPT !._curr_data_key = new_key]

\* self._ops_performed[curr_dkey] raises KeyError for an unknown curr_dkey
_add_to_operation_history(o, curr_dkey, new_op_key) ==
    IF curr_dkey = NoneKey
    THEN Res([o EXCEPT !._ops_performed = (new_op_key :> <<new_op_key>>) @@ @],
             <<>>, NoErr)
    ELSE IF curr_dkey \notin DOMAIN o._ops_performed
    THEN Res(o, <<>>, "KeyError")
    ELSE Res([o EXCEPT !._ops_performed =
                 (new_op_key :> Append(o._ops_performed[curr_dkey], new_op_key)) @@ @],
             <<>>, NoErr)

\* a faulty variant of _new_empty_databin: the new bin is the only one kept
_new_empty_databin_only(o, h, shape, name) ==
    IF \E i \in 1..Len(shape) : shape[i] < 0
    THEN Ref(o, h, NoneRef, "ValueError")
    ELSE Then(Alloc(h), LAMBDA a :
             Ref([o EXCEPT !._data_bins = (name :> a)],
                 [h EXCEPT ![a] = Buf(shape, "uninitialized", FALSE)],
                 a, NoErr))

\* np.empty rejects a negative dimension; the new array replaces the bin of
\* the same name (and the attribute of the same name, which every caller sets
\* to the returned array)
_new_empty_databin(o, h, shape, name) ==
    IF \E i \in 1..Len(shape) : shape[i] < 0
    THEN Ref(o, h, NoneRef, "ValueError")
    ELSE Then(Alloc(h), LAMBDA a :
             Ref([o EXCEPT !._data_bins = (name :> a) @@ @],
                 [h EXCEPT ![a] = Buf(shape, "uninitialized", FALSE)],
                 a, NoErr))

\* a faulty variant of _new_databin: the bin is the given array itself and
\* not a copy of it
_new_databin_shared(o, h, data, name) ==
    Ref([o EXCEPT !._data_bins = (name :> data) @@ @], h, data, NoErr)

\* np.empty_like(data); new[:] = data
_new_databin(o, h, data, name) ==
    Then(Alloc(h), LAMBDA a :
        Ref([o EXCEPT !._data_bins = (name :> a) @@ @],
            [h EXCEPT ![a] = [h[data] EXCEPT !.base = NoneRef]],
            a, NoErr))

\* The coordinate vector resolved for key: its own, or that of the nearest
\* ancestor in its chain of operations; <<FALSE, ...>> when there is none.
ResolveTimeCoord(o, key) ==
    IF key \in DOMAIN o._altered_time_coords
    THEN <<TRUE, o._altered_time_coords[key]>>
    ELSE LET ops == o._ops_performed[key]
             hits == {i \in 1..Len(ops) : ops[i] \in DOMAIN o._altered_time_coords}
         IN  IF hits = {} THEN <<FALSE, <<>>>>
             ELSE <<TRUE, o._altered_time_coords[
                              ops[CHOOSE j \in hits : \A m \in hits : m <= j]]>>

_set_time_coord(o, key, time_len_of_data) ==
    IF key \notin DOMAIN o._altered_time_coords /\ key \notin DOMAIN o._ops_performed
    THEN Res(o, <<>>, "KeyError")
    ELSE Then(ResolveTimeCoord(o, key), LAMBDA r :
             IF ~r[1] THEN Res(o, <<>>, "IndexError")
             ELSE IF Len(r[2]) # time_len_of_data THEN Res(o, <<>>, "ValueError")
             ELSE Res([o EXCEPT !.time_coord = r[2],
                                !._time_shp = <<time_len_of_data>>],
                      <<>>, NoErr))

\* a faulty variant of reset_data: the current key is set before the bin is
\* looked up
reset_data_key_first(o, h, key) ==
    Then(_set_curr_data_key(o, key), LAMBDA o0 :
        IF key \notin DOMAIN o._data_bins
        THEN Res(o0, h, "KeyError")
        ELSE Then([o0 EXCEPT !.data = o._data_bins[key]], LAMBDA o1 :
                 IF o1._leading_time
                 THEN Then(_set_time_coord(o1, key, h[o1.data].shape[1]),
                           LAMBDA r : Res(r.o, h, r.err))
                 ELSE Res(o1, h, NoErr)))

\* reset_data: a KeyError raised anywhere in the try block is raised again as
\* KeyError; other exceptions propagate.  Assignments made before the
\* exception stay.
reset_data(o, h, key) ==
    IF key \notin DOMAIN o._data_bins
    THEN Res(o, h, "KeyError")
    ELSE Then(_set_curr_data_key([o EXCEPT !.data = o._data_bins[key]], key),
              LAMBDA o1 :
                 IF o1._leading_time
                 THEN Then(_set_time_coord(o1, key, h[o1.data].shape[1]),
                           LAMBDA r : Res(r.o, h, r.err))
                 ELSE Res(o1, h, NoErr))

(***************************************************************************)
(* Construction                                                            *)
(***************************************************************************)
\* The coordinate vector supplied for the TIME dimension
InputTimeCoord == [i \in 1..NSamples |-> i]

\* The shape of the input array: (time, space) or (space,)
InputShape(leading_time) ==
    IF leading_time THEN <<NSamples, NSpatial>> ELSE <<NSpatial>>

\* Number of spatial points that are valid at every sample when the input
\* has invalid values
NumValid == NSpatial - 1

\* np.compress(valid_mask, data, axis, out=out_arr): the result is written to
\* out_arr when it is given and is a new array otherwise
_compress_to_valid_data(o, h, out_arr) ==
    Then(IF out_arr = NoneRef THEN Alloc(h) ELSE out_arr, LAMBDA a :
        Ref(o,
            [h EXCEPT ![a] = Buf(IF o._leading_time
                                 THEN <<h[o.data].shape[1], NumValid>>
                                 ELSE <<NumValid>>, _COMPRESSED, FALSE)],
            a, NoErr))

\* The attributes __init__ sets before it looks at the data
NewObject(leading_time, masked, save_none, cell_area, irregular_grid, lat_dim) ==
    [exists |-> TRUE,
     _leading_time |-> leading_time,
     _save_none |-> save_none,
     is_masked |-> masked,
     cell_area |-> cell_area,
     irregular_grid |-> irregular_grid,
     lat_dim |-> lat_dim,
     _time_shp |-> IF leading_time THEN <<NSamples>> ELSE <<>>,
     time_coord |-> IF leading_time THEN InputTimeCoord ELSE <<>>,
     data |-> 1,
     _data_bins |-> EmptyDict,
     _curr_data_key |-> NoneKey,
     _ops_performed |-> EmptyDict,
     _altered_time_coords |->
         IF leading_time THEN (_ORIGDATA :> InputTimeCoord) ELSE EmptyDict,
     _eofs |-> <<>>,
     _svals |-> <<>>,
     _eof_stats |-> EmptyDict,
     dicts |-> OwnDicts]

\* __init__ from the point where the original data is in its bin: the data
\* is compressed when it has invalid values, and reset to the original bin
\* otherwise
InitCompress(o1, h1) ==
    IF o1.is_masked
    THEN Then(IF ~o1._save_none
              THEN _new_empty_databin(o1, h1,
                       IF o1._leading_time THEN <<o1._time_shp[1], NumValid>>
                       ELSE <<NumValid>>, _COMPRESSED)
              ELSE Ref(o1, h1, NoneRef, NoErr),
              LAMBDA e :
         Then(_compress_to_valid_data(e.o, e.h, e.ref), LAMBDA c :
         Then(_add_to_operation_history([c.o EXCEPT !.data = c.ref],
                                        c.o._curr_data_key, _COMPRESSED),
              LAMBDA a : Res(_set_curr_data_key(a.o, _COMPRESSED), c.h, NoErr))))
    ELSE reset_data(o1, h1, _ORIGDATA)

\* __init__ for an input array with spatial dimensions already flat, with or
\* without a TIME entry in dim_coords at index 0, with or without invalid
\* values, and no valid_data argument.
__init__(leading_time, masked, save_none, cell_area, irregular_grid, lat_dim) ==
    Then(NewObject(leading_time, masked, save_none, cell_area, irregular_grid, lat_dim),
         LAMBDA o0 :
    Then(_new_databin(o0,
                      [[a \in Addrs |-> NoBuf] EXCEPT
                          ![1] = Buf(InputShape(leading_time), _ORIGDATA, FALSE)],
                      o0.data, _ORIGDATA),
         LAMBDA b :
    Then(_add_to_operation_history(b.o, NoneKey, _ORIGDATA), LAMBDA a :
         InitCompress(_set_curr_data_key(a.o, _ORIGDATA), b.h))))

(***************************************************************************)
(* Transform stages                                                        *)
(***************************************************************************)
\* The attribute named after a databin key (self.anomaly, ...): the bin, or
\* None while the bin does not exist
Attr(o, key) == IF key \in DOMAIN o._data_bins THEN o._data_bins[key] ELSE NoneRef

\* A kernel called with output_arr: the result (of the given shape) is
\* assigned to output_arr[:] when one is given and is a new array otherwise.
StoreResult(o, h, output_arr, shape, stage) ==
    IF output_arr = NoneRef
    THEN Then(Alloc(h), LAMBDA a :
             Ref(o, [h EXCEPT ![a] = Buf(shape, stage, FALSE)], a, NoErr))
    ELSE IF ~IsBroadcastable(shape, h[output_arr].shape)
    THEN Ref(o, h, NoneRef, "ValueError")
    ELSE Ref(o,
             [a \in DOMAIN h |->
                 IF SameMemory(h, a, output_arr)
                 THEN [h[a] EXCEPT !.stage = stage, !.dirty = FALSE]
                 ELSE h[a]],
             output_arr, NoErr)

\* self._add_to_operation_history(self._curr_data_key, key);
\* self._set_curr_data_key(key)
RecordStage(o, h, key) ==
    Then(_add_to_operation_history(o, o._curr_data_key, key), LAMBDA r :
        IF r.err # NoErr THEN Res(o, h, r.err)
        ELSE Res(_set_curr_data_key(r.o, key), h, NoErr))

\* if save and not self._save_none: self.<key> = self._new_empty_databin(...)
NewBinIfSaved(o, h, shape, key, save) ==
    IF save /\ ~o._save_none
    THEN _new_empty_databin(o, h, shape, key)
    ELSE Ref(o, h, NoneRef, NoErr)

\* time_average_resample after the new bin b is created: the current data is
\* sliced, reshaped and averaged into the bin, the coordinate is resampled.
\* The slice is a view on the array that was the current data; it is what
\* self.data is left as when reshape rejects it, which it does when the
\* slice and avg_shape differ in their number of elements.
ResampleInto(o, h, b, key, nsamples_in_avg, shift, new_nsamples, end_cutoff) ==
    Then(PySliceLen(h[o.data].shape[1], Some(shift), end_cutoff, 1), LAMBDA sliced :
        IF Product(<<sliced>> \o Tail(h[o.data].shape))
               # Product(<<new_nsamples, nsamples_in_avg>> \o Tail(h[o.data].shape))
        THEN Then(Alloc(b.h), LAMBDA v :
                 Res([b.o EXCEPT !.data = v],
                     [b.h EXCEPT ![v] = View(h, o.data,
                                           <<sliced>> \o Tail(h[o.data].shape))],
                     "ValueError"))
        ELSE Then(PySlice(o.time_coord, Some(shift), end_cutoff, nsamples_in_avg),
                  LAMBDA new_time_coord :
                 RecordStage([b.o EXCEPT !.data = b.ref,
                                         !._time_shp = <<new_nsamples>>,
                                         !.time_coord = new_time_coord,
                                         !._altered_time_coords =
                                             (key :> new_time_coord) @@ @],
                             [b.h EXCEPT ![b.ref] = Buf(h[b.ref].shape, key, FALSE)],
                             key)))

time_average_resample(o, h, key, nsamples_in_avg, shift) ==
    IF ~o._leading_time THEN Res(o, h, "ValueError")
    ELSE IF shift < 0 THEN Res(o, h, "ValueError")
    ELSE
    LET nsamples == o._time_shp[1] - shift
        new_nsamples == nsamples \div nsamples_in_avg
        cut == nsamples % nsamples_in_avg
        end_cutoff == IF cut = 0 THEN NoneInt ELSE Some(-cut)
    IN  Then(_new_empty_databin(o, h, <<new_nsamples>> \o Tail(h[o.data].shape), key),
             LAMBDA b :
            IF b.err # NoErr THEN Res(o, h, b.err)
            ELSE ResampleInto(o, b.h, b, key, nsamples_in_avg, shift,
                              new_nsamples, end_cutoff))

\* edge_trim rounded down instead of up to whole years
EdgeTrimRoundDown(window_size, year_len) ==
    LET yl == IF year_len < 1 THEN 1 ELSE year_len
        edge_pad == window_size \div 2
    IN  (edge_pad \div yl) * yl

\* edge_trim of calc_running_mean: ceil(edge_pad / year_len) * year_len
EdgeTrim(window_size, year_len) ==
    LET yl == IF year_len < 1 THEN 1 ELSE year_len
        edge_pad == window_size \div 2
    IN  ((edge_pad + yl - 1) \div yl) * yl

\* What calc_running_mean computes before it calls the kernel, from the
\* sample count of the current data and the TIME coordinate: the trim, the
\* sample count of the output and the new TIME coordinate
RunMeanTrim(time_len, old_time_coord, window_size, year_len) ==
    LET edge_trim == EdgeTrim(window_size, year_len)
    IN  [edge_trim |-> edge_trim,
         new_time_len |-> time_len - edge_trim * 2,
         new_time_coord |-> PySlice(old_time_coord, Some(edge_trim),
                                    Some(-edge_trim), 1)]

\* Stats.run_mean(data, window_size, trim_edge, output_arr), which is not
\* part of the source: a centred moving average that drops trim_edge samples
\* at each end of the series and cannot drop more samples than there are
run_mean(time_len, trim_edge) ==
    IF time_len - 2 * trim_edge < 0
    THEN [err |-> "ValueError", time_len |-> 0]
    ELSE [err |-> NoErr, time_len |-> time_len - 2 * trim_edge]

\* calc_running_mean after the TIME coordinate is replaced (object o1)
RunMeanInto(o1, h, edge_trim, new_time_len, new_time_coord, save) ==
    Then(NewBinIfSaved(o1, h, <<new_time_len>> \o Tail(h[o1.data].shape), _RUNMEAN, save),
         LAMBDA b :
        IF b.err # NoErr THEN Res(o1, h, b.err)
        ELSE IF run_mean(h[o1.data].shape[1], edge_trim).err # NoErr
        THEN Res(b.o, b.h, run_mean(h[o1.data].shape[1], edge_trim).err)
        ELSE Then(StoreResult(b.o, b.h, Attr(b.o, _RUNMEAN),
                              <<new_time_len>> \o Tail(h[o1.data].shape), _RUNMEAN),
                  LAMBDA r :
                 IF r.err # NoErr THEN Res(b.o, b.h, r.err)
                 ELSE Then(RecordStage([r.o EXCEPT !.data = r.ref,
                                                   !._time_shp = <<new_time_len>>],
                                       r.h, _RUNMEAN),
                           LAMBDA s :
                          IF s.err # NoErr THEN s
                          ELSE Res([s.o EXCEPT !._altered_time_coords =
                                                   (_RUNMEAN :> new_time_coord) @@ @],
                                   s.h, NoErr))))

calc_running_mean(o, h, window_size, year_len, save) ==
    IF ~o._leading_time THEN Res(o, h, "ValueError")
    ELSE Then(EdgeTrim(window_size, year_len), LAMBDA edge_trim :
         Then(PySlice(o.time_coord, Some(edge_trim), Some(-edge_trim), 1),
              LAMBDA new_time_coord :
             RunMeanInto([o EXCEPT !.time_coord = new_time_coord], h, edge_trim,
                         h[o.data].shape[1] - edge_trim * 2, new_time_coord, save)))

\* The end of every stage that keeps the shape: the result is stored in
\* output_arr or in a new array, becomes the current data, and the stage is
\* recorded
FinishStage(b, output_arr, shape, key) ==
    Then(StoreResult(b.o, b.h, output_arr, shape, key), LAMBDA r :
        IF r.err # NoErr THEN Res(b.o, b.h, r.err)
        ELSE RecordStage([r.o EXCEPT !.data = r.ref], r.h, key))

\* The stages that keep the shape and call a kernel with
\* output_arr=self.<key>: calc_anomaly and detrend_data
SameShapeStage(o, h, key, save) ==
    IF ~o._leading_time THEN Res(o, h, "ValueError")
    ELSE Then(NewBinIfSaved(o, h, h[o.data].shape, key, save), LAMBDA b :
             FinishStage(b, Attr(b.o, key), h[o.data].shape, key))

calc_anomaly(o, h, save) == SameShapeStage(o, h, _ANOMALY, save)

detrend_data(o, h, save) == SameShapeStage(o, h, _DETRENDED, save)

\* the shape of scale: cell_area, or the latitude of every cell; flat, and
\* compressed to the valid cells when the input had invalid values
ScaleShape(o) == IF o.is_masked THEN <<NumValid>> ELSE <<NSpatial>>

\* result = awgt * scale, with broadcasting; the result is assigned to
\* self.area_weighted[:] when that bin exists
area_weight_data(o, h, save) ==
    IF ~o.cell_area /\ o.irregular_grid THEN Res(o, h, "ValueError")
    ELSE IF ~o.cell_area /\ ~o.irregular_grid /\ ~o.lat_dim THEN Res(o, h, "ValueError")
    ELSE Then(NewBinIfSaved(o, h, h[o.data].shape, _AWGHT, save), LAMBDA b :
         Then(Broadcast(h[o.data].shape, ScaleShape(b.o)), LAMBDA result :
             IF ~result[1] THEN Res(b.o, b.h, "ValueError")
             ELSE FinishStage(b, Attr(b.o, _AWGHT), result[2], _AWGHT)))

\* the result goes to self.standardized only when the bin was just created
standardize_data(o, h, save) ==
    Then(NewBinIfSaved(o, h, h[o.data].shape, _STD, save), LAMBDA b :
        FinishStage(b, b.ref, h[o.data].shape, _STD))

\* calc_eofs(data, num_eofs): the basis has one row per feature of data and
\* num_eofs columns; the singular values come with it
calc_eofs(shape, num_eofs) == [eofs |-> <<shape[2], num_eofs>>, svals |-> <<num_eofs>>]

\* eof_proj_data from the projection on: the target r2 is the current data,
\* the basis is in _eofs
EofProject(r2, k, save) ==
    Then(NewBinIfSaved(r2.o, r2.h, <<r2.h[r2.o.data].shape[1], k>>, _EOFPROJ, save),
         LAMBDA b :
        \* np.dot(self.data, self._eofs)
        IF r2.h[r2.o.data].shape[2] # b.o._eofs[1] THEN Res(b.o, b.h, "ValueError")
        ELSE FinishStage(b, Attr(b.o, _EOFPROJ),
                         <<r2.h[r2.o.data].shape[1], k>>, _EOFPROJ))

\* eof_proj_data from the basis on: r1 is the object with the basis stage as
\* its current data
EofBasis(r1, num_eofs, eof_in, save, calc_on, proj_key) ==
    IF eof_in # <<>> /\ eof_in[1] # r1.h[r1.o.data].shape[2]
    THEN Res(r1.o, r1.h, "ValueError")
    ELSE Then(IF eof_in = <<>>
              THEN [r1.o EXCEPT
                       !._eof_stats = ("calc_on" :> calc_on),
                       !._eofs = calc_eofs(r1.h[r1.o.data].shape, num_eofs).eofs,
                       !._svals = calc_eofs(r1.h[r1.o.data].shape, num_eofs).svals]
              ELSE [r1.o EXCEPT !._eofs = eof_in],
              LAMBDA o2 :
         Then(IF proj_key # NoneKey THEN reset_data(o2, r1.h, proj_key)
              ELSE Res(o2, r1.h, NoErr),
              LAMBDA r2 :
             IF r2.err # NoErr THEN r2
             ELSE EofProject(r2, IF eof_in # <<>> THEN eof_in[2] ELSE num_eofs, save)))

\* eof_in is None (<<>>) or an array of shape <<rows, columns>>;
\* calc_on_key and proj_key are None or a key
eof_proj_data(o, h, num_eofs, eof_in, save, calc_on_key, proj_key) ==
    IF ~o._leading_time THEN Res(o, h, "ValueError")
    ELSE IF calc_on_key = NoneKey /\ o._curr_data_key # _AWGHT
    THEN Then(reset_data(o, h, _AWGHT), LAMBDA r1 :
             IF r1.err # NoErr THEN r1
             ELSE EofBasis(r1, num_eofs, eof_in, save, _AWGHT, proj_key))
    ELSE EofBasis(Res(o, h, NoErr), num_eofs, eof_in, save, calc_on_key, proj_key)

(***************************************************************************)
(* copy                                                                    *)
(***************************************************************************)
\* data_indices of copy(): None, a list of indices, or a slice
NoIndices == [kind |-> "none"]
IndexList(idx) == [kind |-> "list", idx |-> idx]
IndexSlice(start, stop, step) ==
    [kind |-> "slice", start |-> start, stop |-> stop, step |-> step]

\* the 0-based positions a[data_indices] selects in a leading dimension of
\* length len (negative list entries count from the end)
SelectedIndices(len, di) ==
    IF di.kind = "list"
    THEN [i \in 1..Len(di.idx) |-> IF di.idx[i] < 0 THEN di.idx[i] + len ELSE di.idx[i]]
    ELSE SliceIndices(len, di.start, di.stop, di.step)

\* a list index outside [-len, len) raises IndexError
IndicesInRange(len, di) ==
    di.kind = "list" => \A i \in 1..Len(di.idx) : di.idx[i] >= -len /\ di.idx[i] < len

\* sample_len of copy(): len(data_indices), or stop - start for a slice
SampleLen(di) ==
    IF di.kind = "list" THEN Len(di.idx) ELSE di.stop[1] - di.start[1]

\* _helper_copy_new_databin, called on the new object
_helper_copy_new_databin(n, h, data_key, data) ==
    Then(_new_databin(n, h, data, data_key), LAMBDA b :
        Res(_set_curr_data_key([b.o EXCEPT !.data = b.ref], data_key), b.h, NoErr))

\* a faulty variant of KeepEofs: only the current stage key is looked at
KeepEofsCurrentOnly(o) == o._curr_data_key = _EOFPROJ

\* whether copy() keeps the EOF attributes
KeepEofs(o) ==
    \/ o._curr_data_key = _EOFPROJ
    \/ \E i \in 1..Len(o._ops_performed[o._curr_data_key]) :
           o._ops_performed[o._curr_data_key][i] = _EOFPROJ

\* time_coord[data_indices]
SelectCoord(o, di) ==
    IF di.kind = "none" THEN o.time_coord
    ELSE Then(SelectedIndices(Len(o.time_coord), di), LAMBDA sel :
             [i \in 1..Len(sel) |-> o.time_coord[sel[i] + 1]])

\* a faulty variant of CopiedDicts: _dim_coords is not deep-copied, the new
\* object holds the dict of the source
CopiedDictsShallow(o) ==
    [o.dicts EXCEPT !._data_bins = NewDict(@),
                    !._ops_performed = NewDict(@),
                    !._altered_time_coords = NewDict(@)]

\* the dicts of the new object: _data_bins, _ops_performed and
\* _altered_time_coords are dict displays, _dim_coords is deep-copied from
\* the source
CopiedDicts(o) ==
    [o.dicts EXCEPT !._data_bins = NewDict(@),
                    !._ops_performed = NewDict(@),
                    !._altered_time_coords = NewDict(@),
                    !._dim_coords = NewDict(@)]

\* a faulty variant of CopiedAttrs: the coordinates recorded for the other
\* stages of the source are kept
CopiedAttrsAllCoords(o, di, time_coord) ==
    [o EXCEPT !._eofs = IF KeepEofs(o) THEN @ ELSE <<>>,
              !._svals = IF KeepEofs(o) THEN @ ELSE <<>>,
              !._eof_stats = IF KeepEofs(o) THEN @ ELSE EmptyDict,
              !.data = NoneRef,
              !._data_bins = EmptyDict,
              !._ops_performed =
                  (o._curr_data_key :> o._ops_performed[o._curr_data_key]),
              !._altered_time_coords = (o._curr_data_key :> time_coord) @@ @,
              !.time_coord = time_coord,
              !._time_shp = IF di.kind = "none" THEN @ ELSE <<SampleLen(di)>>,
              !.dicts = CopiedDicts(o)]

\* the attributes of the new object before its databin is created
CopiedAttrs(o, di, time_coord) ==
    [o EXCEPT !._eofs = IF KeepEofs(o) THEN @ ELSE <<>>,
              !._svals = IF KeepEofs(o) THEN @ ELSE <<>>,
              !._eof_stats = IF KeepEofs(o) THEN @ ELSE EmptyDict,
              !.data = NoneRef,
              !._data_bins = EmptyDict,
              !._ops_performed =
                  (o._curr_data_key :> o._ops_performed[o._curr_data_key]),
              !._altered_time_coords = (o._curr_data_key :> time_coord),
              !.time_coord = time_coord,
              !._time_shp = IF di.kind = "none" THEN @ ELSE <<SampleLen(di)>>,
              !.dicts = CopiedDicts(o)]

\* data[data_indices, ...]: a new array of the selected samples for a list
\* of indices, a view on the data for a slice
SelectData(o, h, di) ==
    IF di.kind = "none" THEN Ref(o, h, o.data, NoErr)
    ELSE Then(Alloc(h), LAMBDA v :
         Then(<<Len(SelectedIndices(h[o.data].shape[1], di))>> \o Tail(h[o.data].shape),
              LAMBDA shape :
             Ref(o,
                 [h EXCEPT ![v] =
                     IF di.kind = "slice" THEN View(h, o.data, shape)
                     ELSE [h[o.data] EXCEPT !.shape = shape, !.base = NoneRef]],
                 v, NoErr)))

\* copy(): .o is the new object (the source is not changed by copy)
copy(o, h, di) ==
    IF di.kind # "none" /\ ~o._leading_time THEN Res(NoObj, h, "ValueError")
    ELSE IF o._curr_data_key \notin DOMAIN o._ops_performed THEN Res(NoObj, h, "KeyError")
    ELSE IF ~o._leading_time THEN Res(NoObj, h, "KeyError")
    ELSE IF di.kind = "slice" /\ (di.start = NoneInt \/ di.stop = NoneInt)
    THEN Res(NoObj, h, "TypeError")
    ELSE IF di.kind = "slice" /\ di.step = 0 THEN Res(NoObj, h, "ValueError")
    ELSE IF di.kind # "none" /\ (~IndicesInRange(Len(o.time_coord), di)
                                \/ ~IndicesInRange(h[o.data].shape[1], di))
    THEN Res(NoObj, h, "IndexError")
    ELSE Then(SelectData(o, h, di), LAMBDA d :
         Then(CopiedAttrs(o, di, SelectCoord(o, di)), LAMBDA n :
             _helper_copy_new_databin(n, d.h, o._curr_data_key, d.ref)))

(***************************************************************************)
(* The state machine: calls made on the constructed object and on its copy *)
(***************************************************************************)
Bool == {TRUE, FALSE}

\* arguments the calls are made with
AvgSizes == 1..MaxAvg
Shifts == (-1)..MaxShift
Windows == 0..MaxWindow
YearLens == 0..MaxYearLen
NumEofs == 2        \* num_eofs passed to eof_proj_data
EofInputs == {<<>>, <<NumValid, 1>>, <<NSpatial, 1>>}
CalcOnKeys == {NoneKey, _ORIGDATA}
ProjKeys == {NoneKey, _ORIGDATA}
CopyIndices == {NoIndices,
                IndexList(<<0, 2>>),
                IndexSlice(Some(0), Some(2), 1),
                IndexSlice(Some(0), Some(4), 2),
                IndexSlice(Some(3), Some(0), -2),
                IndexSlice(NoneInt, Some(2), 1)}

Transforms == {"time_average_resample", "calc_running_mean", "calc_anomaly",
               "detrend_data", "area_weight_data", "standardize_data",
               "eof_proj_data"}

\* The ways the object is constructed
Config(leading_time, masked, save_none, cell_area, irregular_grid) ==
    [leading_time |-> leading_time, masked |-> masked, save_none |-> save_none,
     cell_area |-> cell_area, irregular_grid |-> irregular_grid]
Configs ==
    {Config(TRUE, FALSE, FALSE, TRUE, FALSE),
     Config(TRUE, TRUE, FALSE, TRUE, FALSE),
     Config(TRUE, FALSE, TRUE, TRUE, FALSE),
     Config(TRUE, TRUE, TRUE, TRUE, FALSE),
     Config(TRUE, FALSE, FALSE, FALSE, TRUE),
     Config(FALSE, FALSE, FALSE, TRUE, FALSE)}

Constructed(c) ==
    __init__(c.leading_time, c.masked, c.save_none, c.cell_area, c.irregular_grid, TRUE)

Init ==
    /\ \E c \in Configs : \E r \in {Constructed(c)} :
          /\ objs = [i \in ObjIds |-> IF i = 1 THEN r.o ELSE NoObj]
          /\ heap = Collect(r.h, objs)
    /\ last = [op |-> "__init__", obj |-> 1, err |-> NoErr]
    /\ nops = 0

\* a method called on object i with result res; the other object shows
\* what the call stored in a dict that both hold
Call(i, name, res) ==
    \E r \in {res} :
        /\ objs' = [j \in ObjIds |-> IF j = i THEN r.o ELSE Aliased(objs[j], r.o)]
        /\ heap' = Collect(r.h, objs')
        /\ last' = [op |-> name, obj |-> i, err |-> r.err]
        /\ nops' = nops + 1

CanCall(i) == objs[i].exists

Resample(i, k, shift) ==
    /\ CanCall(i)
    /\ Call(i, "time_average_resample",
            time_average_resample(objs[i], heap, ResampleKey, k, shift))

RunningMean(i, window_size, year_len, save) ==
    /\ CanCall(i)
    /\ Call(i, "calc_running_mean",
            calc_running_mean(objs[i], heap, window_size, year_len, save))

Anomaly(i, save) ==
    /\ CanCall(i)
    /\ Call(i, "calc_anomaly", calc_anomaly(objs[i], heap, save))

Detrend(i, save) ==
    /\ CanCall(i)
    /\ Call(i, "detrend_data", detrend_data(objs[i], heap, save))

AreaWeight(i, save) ==
    /\ CanCall(i)
    /\ Call(i, "area_weight_data", area_weight_data(objs[i], heap, save))

Standardize(i, save) ==
    /\ CanCall(i)
    /\ Call(i, "standardize_data", standardize_data(objs[i], heap, save))

EofProj(i, eof_in, save, calc_on_key, proj_key) ==
    /\ CanCall(i)
    /\ Call(i, "eof_proj_data",
            eof_proj_data(objs[i], heap, NumEofs, eof_in, save, calc_on_key, proj_key))

ResetData(i, key) ==
    /\ CanCall(i)
    /\ Call(i, "reset_data", reset_data(objs[i], heap, key))

\* The dates of a TIME coordinate are days, counted from 1 and fewer than
\* 24; the numbers date2num makes of them are hours, 24 and more
IsDate(t) == t < 24

\* ncf.date2num(times, units): the units the object was built with are
\* hours since the day before the first sample; an entry that is a number
\* and no date is refused
date2num(times) ==
    IF \E j \in 1..Len(times) : ~IsDate(times[j])
    THEN [err |-> "TypeError", nums |-> <<>>]
    ELSE [err |-> NoErr, nums |-> [j \in 1..Len(times) |-> 24 * times[j]]]

\* save_dataobj_pckl(filename): the TIME coordinate is replaced by numbers,
\* the object is written to the file, and the coordinate is put back; when
\* the file cannot be opened (io_ok is FALSE) the numbers stay, and the
\* next call hands them to date2num, which raises before anything is
\* assigned
save_dataobj_pckl(o, h, io_ok) ==
    IF ~o._leading_time THEN Res(o, h, "KeyError")
    ELSE Then(date2num(o.time_coord), LAMBDA topckl_time :
        IF topckl_time.err # NoErr THEN Res(o, h, topckl_time.err)
        ELSE IF ~io_ok
        THEN Res([o EXCEPT !.time_coord = topckl_time.nums], h, "FileNotFoundError")
        ELSE Res(o, h, NoErr))

SavePckl(i, io_ok) ==
    /\ CanCall(i)
    /\ Call(i, "save_dataobj_pckl", save_dataobj_pckl(objs[i], heap, io_ok))

\* new = obj.copy(data_indices): the copy takes the place of the other object
Copy(i, di) ==
    /\ CanCall(i)
    /\ \E r \in {copy(objs[i], heap, di)} :
           /\ objs' = IF r.err = NoErr THEN [objs EXCEPT ![3 - i] = r.o] ELSE objs
           /\ heap' = Collect(r.h, objs')
           /\ last' = [op |-> "copy", obj |-> i, err |-> r.err]
    /\ nops' = nops + 1

\* obj.data[...] = values: the caller writes into the current array in
\* place; an array with no elements has nothing to write to
WriteData(i) ==
    /\ CanCall(i)
    /\ objs[i].data # NoneRef
    /\ heap' = [a \in DOMAIN heap |->
                    IF /\ Product(heap[objs[i].data].shape) # 0
                       /\ SameMemory(heap, a, objs[i].data)
                    THEN [heap[a] EXCEPT !.dirty = TRUE]
                    ELSE heap[a]]
    /\ objs' = objs
    /\ last' = [op |-> "write", obj |-> i, err |-> NoErr]
    /\ nops' = nops + 1

\* the calls with every argument, on object i
CallResample(i) == \E k \in AvgSizes, shift \in Shifts : Resample(i, k, shift)
CallRunningMean(i) ==
    \E w \in Windows, y \in YearLens, save \in Bool : RunningMean(i, w, y, save)
CallAnomaly(i) == \E save \in Bool : Anomaly(i, save)
CallDetrend(i) == \E save \in Bool : Detrend(i, save)
CallAreaWeight(i) == \E save \in Bool : AreaWeight(i, save)
CallStandardize(i) == \E save \in Bool : Standardize(i, save)
CallEofProj(i) ==
    \E eof_in \in EofInputs, save \in Bool, calc_on_key \in CalcOnKeys,
       proj_key \in ProjKeys : EofProj(i, eof_in, save, calc_on_key, proj_key)
CallResetData(i) == \E key \in Keys : ResetData(i, key)
CallCopy(i) == \E di \in CopyIndices : Copy(i, di)
CallSavePckl(i) == \E io_ok \in Bool : SavePckl(i, io_ok)

\* any call, on either object, up to MaxOps calls
Next ==
    \/ nops < MaxOps /\ \E i \in ObjIds : CallResample(i)
    \/ nops < MaxOps /\ \E i \in ObjIds : CallRunningMean(i)
    \/ nops < MaxOps /\ \E i \in ObjIds : CallAnomaly(i)
    \/ nops < MaxOps /\ \E i \in ObjIds : CallDetrend(i)
    \/ nops < MaxOps /\ \E i \in ObjIds : CallAreaWeight(i)
    \/ nops < MaxOps /\ \E i \in ObjIds : CallStandardize(i)
    \/ nops < MaxOps /\ \E i \in ObjIds : CallEofProj(i)
    \/ nops < MaxOps /\ \E i \in ObjIds : CallResetData(i)
    \/ nops < MaxOps /\ \E i \in ObjIds : CallCopy(i)
    \/ nops < MaxOps /\ \E i \in ObjIds : WriteData(i)
    \/ nops < MaxOps /\ \E i \in ObjIds : CallSavePckl(i)

Spec == Init /\ [][Next]_vars

\* Longer sequences of calls on either object, each stage called with one
\* choice of its numeric arguments, up to MaxDeepOps calls
DeepIndices == {NoIndices, IndexSlice(Some(0), Some(4), 2)}
NextDeep ==
    \/ nops < MaxDeepOps /\ \E i \in ObjIds : Resample(i, MaxAvg, 0)
    \/ nops < MaxDeepOps /\ \E i \in ObjIds : \E save \in Bool :
           RunningMean(i, MaxWindow, 1, save)
    \/ nops < MaxDeepOps /\ \E i \in ObjIds : CallAnomaly(i)
    \/ nops < MaxDeepOps /\ \E i \in ObjIds : CallDetrend(i)
    \/ nops < MaxDeepOps /\ \E i \in ObjIds : CallAreaWeight(i)
    \/ nops < MaxDeepOps /\ \E i \in ObjIds : CallStandardize(i)
    \/ nops < MaxDeepOps /\ \E i \in ObjIds : \E save \in Bool :
           EofProj(i, <<>>, save, NoneKey, NoneKey)
    \/ nops < MaxDeepOps /\ \E i \in ObjIds : CallResetData(i)
    \/ nops < MaxDeepOps /\ \E i \in ObjIds : \E di \in DeepIndices : Copy(i, di)
    \/ nops < MaxDeepOps /\ \E i \in ObjIds : WriteData(i)
    \/ nops < MaxDeepOps /\ \E i \in ObjIds : CallSavePckl(i)

SpecDeep == Init /\ [][NextDeep]_vars

\* One object taken through the time pipeline: resampling, running mean,
\* anomaly and resets, up to MaxPipelineOps calls
NextPipeline ==
    \/ nops < MaxPipelineOps /\ CallResample(1)
    \/ nops < MaxPipelineOps /\ CallRunningMean(1)
    \/ nops < MaxPipelineOps /\ CallAnomaly(1)
    \/ nops < MaxPipelineOps /\ CallResetData(1)

SpecPipeline == Init /\ [][NextPipeline]_vars

\* Copies taken before and after the EOF projection: EOF projection,
\* standardization, resets, copies and in-place writes on either object, up
\* to MaxCopyOps calls
NextCopy ==
    \/ nops < MaxCopyOps /\ \E i \in ObjIds : CallEofProj(i)
    \/ nops < MaxCopyOps /\ \E i \in ObjIds : CallStandardize(i)
    \/ nops < MaxCopyOps /\ \E i \in ObjIds : CallResetData(i)
    \/ nops < MaxCopyOps /\ \E i \in ObjIds : CallCopy(i)
    \/ nops < MaxCopyOps /\ \E i \in ObjIds : WriteData(i)

SpecCopy == Init /\ [][NextCopy]_vars

\* ---------------------------------------------------------------------
\* train_test_split_random(test_size, random_seed, sample_lags)

MaxLag == 2           \* the largest sample lag
MaxTestSize == 2      \* the largest test size given as a number of samples

\* test_size: an int, or a float given as the fraction num/den
IntSize(n) == [kind |-> "int", num |-> n, den |-> 1]
FloatSize(num, den) == [kind |-> "float", num |-> num, den |-> den]
\* sample_lags: <<>> for None, <<list>> for a list
NoLags == <<>>
Lags(list) == <<list>>

RECURSIVE MaxOf(_)
MaxOf(seq) == IF Len(seq) = 1 THEN seq[1] ELSE Max(Head(seq), MaxOf(Tail(seq)))

\* np.sort(np.array(list(a_set)))
RECURSIVE SortSet(_)
SortSet(S) ==
    IF S = {} THEN <<>>
    ELSE LET m == CHOOSE x \in S : \A y \in S : x <= y
         IN  <<m>> \o SortSet(S \ {m})

SplitSizes(err, sample_len, test_sample_len, test_samples) ==
    [err |-> err, sample_len |-> sample_len, test_sample_len |-> test_sample_len,
     test_samples |-> test_samples]

\* train_test_split_random up to the call of np.random.choice: the lengths
\* it works with, or the exception it stops with
TestSampleSizes(o, test_size, sample_lags) ==
    IF o._time_shp = <<>> THEN SplitSizes("IndexError", 0, 0, 0)
    ELSE IF sample_lags # NoLags /\ sample_lags[1] = <<>>
    THEN SplitSizes("ValueError", 0, 0, 0)
    ELSE LET sample_len == o._time_shp[1]
             test_sample_len == IF sample_lags = NoLags THEN 0
                                ELSE sample_len - MaxOf(sample_lags[1])
             test_samples ==
                 IF test_size.kind = "int" THEN test_size.num
                 ELSE 0 - ((0 - test_sample_len * test_size.num) \div test_size.den)
         IN  IF test_size.kind = "float"
                /\ (test_size.num >= test_size.den \/ test_size.num <= 0)
             THEN SplitSizes("ValueError", sample_len, 0, 0)
             ELSE IF test_size.kind = "float" /\ sample_lags # NoLags
                     /\ 4 * test_size.num * Len(sample_lags[1]) > 3 * test_size.den
             THEN SplitSizes("ValueError", sample_len, 0, 0)
             ELSE IF test_size.kind = "float" /\ sample_lags = NoLags
             THEN SplitSizes("UnboundLocalError", sample_len, 0, 0)
             ELSE IF test_samples <= 0
             THEN SplitSizes("ValueError", sample_len, test_sample_len, test_samples)
             ELSE IF sample_lags = NoLags
             THEN SplitSizes("UnboundLocalError", sample_len, 0, test_samples)
             ELSE IF test_sample_len <= 0 \/ test_samples > test_sample_len
             THEN SplitSizes("ValueError", sample_len, test_sample_len, test_samples)
             ELSE SplitSizes(NoErr, sample_len, test_sample_len, test_samples)

\* lag_idx_training[lag]: the positions (i, i + j) in train_indices of the
\* pairs with train_indices[i] + lag == train_indices[i + j]
LagPairs(train_indices, lag) ==
    LET at == {i \in 1..Len(train_indices) :
                  \E k \in i..Len(train_indices) :
                      train_indices[i] + lag = train_indices[k]}
        t0 == SortSet(at)
    IN  <<[n \in 1..Len(t0) |-> t0[n] - 1],
          [n \in 1..Len(t0) |->
              (CHOOSE k \in t0[n]..Len(train_indices) :
                   train_indices[t0[n]] + lag = train_indices[k]) - 1]>>

Split(test_indices, train_indices, lag_idx_training, test_data) ==
    [test_indices |-> test_indices, train_indices |-> train_indices,
     lag_idx_training |-> lag_idx_training, test_data |-> test_data]
NoSplit == Split({}, <<>>, EmptyDict, <<>>)

\* the sets train_test_split_random builds from the indices that
\* np.random.choice drew
TrainIndices(sample_len, sample_lags, test_indices) ==
    LET lags == {sample_lags[n] : n \in 1..Len(sample_lags)}
        test_set == test_indices \cup {t + lag : t \in test_indices, lag \in lags}
        train_set == (0..(sample_len - 1)) \ test_set
        train_in_test == {idx \in train_set : \E lag \in lags : idx + lag \in test_set}
    IN  SortSet(train_set \ train_in_test)

\* train_test_split_random from np.random.choice on, test_indices being
\* what was drawn: .o is train_dobj.  An empty train_indices is an array of
\* floats, which does not index the coordinate in copy()
train_test_split_random(o, h, sample_lags, test_indices) ==
    LET lags == sample_lags[1]
        train_indices == TrainIndices(o._time_shp[1], lags, test_indices)
        obj_data == Attr(o, o._curr_data_key)
        lagged == {lags[n] : n \in 1..Len(lags)}
        with_pairs == {lag \in lagged : LagPairs(train_indices, lag)[1] # <<>>}
        out == Split(test_indices, train_indices,
                     [lag \in with_pairs |-> LagPairs(train_indices, lag)],
                     [n \in 1..(Len(lags) + 1) |->
                         <<Cardinality(test_indices)>> \o Tail(h[obj_data].shape)])
    IN  IF train_indices = <<>>
        THEN [o |-> NoObj, h |-> h, err |-> "IndexError", ret |-> NoSplit]
        ELSE Then(copy(o, h, IndexList(train_indices)), LAMBDA c :
                 IF c.err # NoErr
                 THEN [o |-> NoObj, h |-> h, err |-> c.err, ret |-> NoSplit]
                 ELSE IF obj_data = NoneRef
                 THEN [o |-> NoObj, h |-> h, err |-> "TypeError", ret |-> NoSplit]
                 ELSE IF \E t \in test_indices, lag \in lagged \cup {0} :
                            t + lag >= h[obj_data].shape[1]
                 THEN [o |-> NoObj, h |-> h, err |-> "IndexError", ret |-> NoSplit]
                 ELSE [o |-> c.o, h |-> c.h, err |-> NoErr, ret |-> out])

TestSizes ==
    {IntSize(n) : n \in 1..MaxTestSize}
        \cup {FloatSize(1, 4), FloatSize(1, 2), FloatSize(1, 1)}
SampleLags ==
    {NoLags, Lags(<<>>)} \cup {Lags(<<a>>) : a \in 1..MaxLag}
        \cup {Lags(<<a, b>>) : a, b \in 1..MaxLag}

\* train, test = obj.train_test_split_random(test_size, sample_lags=...):
\* the training object takes the place of the other object
TrainTestSplit(i, test_size, sample_lags) ==
    /\ CanCall(i)
    /\ \E z \in {TestSampleSizes(objs[i], test_size, sample_lags)} :
        \E test_indices \in
               IF z.err # NoErr THEN {{}}
               ELSE {S \in SUBSET (0..(z.test_sample_len - 1)) :
                        Cardinality(S) = z.test_samples} :
        \E r \in {IF z.err # NoErr
                    THEN [o |-> NoObj, h |-> heap, err |-> z.err, ret |-> NoSplit]
                    ELSE train_test_split_random(objs[i], heap, sample_lags,
                                                 test_indices)} :
           /\ objs' = IF r.err = NoErr THEN [objs EXCEPT ![3 - i] = r.o] ELSE objs
           /\ heap' = Collect(r.h, objs')
           /\ last' = [op |-> "train_test_split_random", obj |-> i, err |-> r.err,
                       args |-> [test_size |-> test_size, sample_lags |-> sample_lags,
                                 sample_len |-> z.sample_len],
                       ret |-> r.ret]
    /\ nops' = nops + 1

CallTrainTestSplit(i) ==
    \E test_size \in TestSizes, sample_lags \in SampleLags :
        TrainTestSplit(i, test_size, sample_lags)

\* one split of the constructed object
NextSplit == nops < 1 /\ CallTrainTestSplit(1)
SpecSplit == Init /\ [][NextSplit]_vars


\* A function applied on its own: no object exists; last holds the
\* arguments and, once the function is applied, the value it returns
NoObjects == [i \in ObjIds |-> NoObj]
NoArrays == [a \in Addrs |-> NoBuf]
Arguments(args) ==
    [op |-> "arguments", obj |-> 0, err |-> NoErr, args |-> args, ret |-> <<>>]
Returned(name, args, ret, err) ==
    [op |-> name, obj |-> 0, err |-> err, args |-> args, ret |-> ret]
InitArguments(argsets) ==
    /\ objs = NoObjects
    /\ heap = NoArrays
    /\ last \in {Arguments(a) : a \in argsets}
    /\ nops = 0
Apply(name, ret, err) ==
    /\ last.op = "arguments"
    /\ last' = Returned(name, last.args, ret, err)
    /\ nops' = nops + 1
    /\ UNCHANGED <<objs, heap>>

\* The trim of calc_running_mean on series of up to MaxSeriesLen samples
\* whose TIME coordinate is 1, 2, ..., with every window and year length
TrimArguments ==
    [time_len : 0..MaxSeriesLen, window_size : 0..MaxTrimWindow,
     year_len : 0..MaxTrimYearLen]

\* the call ends as the kernel does: in ValueError when the two trimmed
\* edges are longer than the series
ApplyRunMeanTrim ==
    \E a \in {last.args} :
        \E r \in {RunMeanTrim(a.time_len, [t \in 1..a.time_len |-> t],
                              a.window_size, a.year_len)} :
            Apply("calc_running_mean", r, run_mean(a.time_len, r.edge_trim).err)

InitTrim == InitArguments(TrimArguments)
NextTrim == ApplyRunMeanTrim
SpecTrim == InitTrim /\ [][NextTrim]_vars

\* ---------------------------------------------------------------------
\* Construction seen at the level of the values of the input array: which
\* cells are marked valid, what the compressed data holds, and what
\* inflate_full_grid returns.

NTimes == 2     \* time samples of the input arrays
NRowLen == 2    \* the spatial grids have 2 * NRowLen cells
MaxBad == 2     \* most cells of an input that are missing or not finite

\* The values a cell can hold that are not an ordinary number, and the
\* ordinary number every other cell holds
NaN == -1
Inf == -2
FillValue == -3     \* the sentinel passed as fill_value (a finite number)
NoFill == 0         \* fill_value=None
NoMask == <<>>      \* valid_data=None
CellValue(t, s) == 10 * t + s

isfinite(v) == v # NaN /\ v # Inf

RECURSIVE Flatten(_)
Flatten(rows) == IF rows = <<>> THEN <<>> ELSE Head(rows) \o Flatten(Tail(rows))

\* An input array: its shape, whether dim_coords names a leading TIME
\* dimension, its values as rows over the flattened spatial cells (one row
\* per time sample, a single row without a time axis), and for a masked
\* array (is_ma) its mask
ArrayInput(shape, leading_time, vals, mask, is_ma) ==
    [shape |-> shape, leading_time |-> leading_time, vals |-> vals,
     mask |-> mask, is_ma |-> is_ma]

SpatialShape(d) == IF d.leading_time THEN Tail(d.shape) ELSE d.shape
TimeShape(d) == IF d.leading_time THEN <<d.shape[1]>> ELSE <<>>
CellsOf(d) == 1..Len(d.vals[1])

\* np.ma.is_masked(data[0]): data[0] is the first time sample, or without a
\* time axis the first slice along the first spatial axis
FirstIsMasked(d) ==
    /\ d.is_ma
    /\ \E s \in 1..(IF d.leading_time THEN Len(d.vals[1])
                    ELSE Len(d.vals[1]) \div d.shape[1]) : d.mask[1][s]

_gen_composite_mask(d) ==
    IF d.leading_time
    THEN [s \in CellsOf(d) |-> Cardinality({t \in DOMAIN d.mask : d.mask[t][s]}) > 0]
    ELSE d.mask[1]

\* a validity mask: the booleans, and for each of them whether it is itself
\* masked (a masked array of booleans); None is NoValid
Validity(masked, valid_data, hidden) ==
    [masked |-> masked, valid_data |-> valid_data, hidden |-> hidden]
NoValid == Validity(FALSE, NoMask, NoMask)

\* np.isfinite(data), and with a fill value `full_valid &= data != fill`,
\* cell by cell.  For a masked array both results are masked arrays with the
\* mask of data; under a masked cell np.isfinite holds what it finds in the
\* value below the mask, and `!=` holds True
FullValid(d, fill_value) ==
    [t \in DOMAIN d.vals |-> [s \in CellsOf(d) |->
        /\ isfinite(d.vals[t][s])
        /\ (fill_value # NoFill /\ ~(d.is_ma /\ d.mask[t][s]))
               => d.vals[t][s] # fill_value]]

\* `not np.all(a)` for the booleans a of the cells of d: for a masked array
\* np.all skips the masked entries, and when every entry is masked it is
\* the masked constant, which `not` takes for False
NotAll(d, a) ==
    \/ d.is_ma /\ \A t \in DOMAIN d.vals : \A s \in CellsOf(d) : d.mask[t][s]
    \/ \E t \in DOMAIN d.vals : \E s \in CellsOf(d) :
           ~(d.is_ma /\ d.mask[t][s]) /\ ~a[t][s]

\* full_valid.sum(axis=0) counts True entries equal to 1
_check_invalid_data_any(d, fill_value) ==
    LET full_valid == FullValid(d, fill_value)
        shown(t, s) == ~(d.is_ma /\ d.mask[t][s])
    IN  IF NotAll(d, full_valid)
        THEN IF d.leading_time
             THEN Validity(TRUE,
                      [s \in CellsOf(d) |->
                          Cardinality({t \in DOMAIN d.vals :
                                          shown(t, s) /\ full_valid[t][s]}) >= 1],
                      [s \in CellsOf(d) |->
                          \A t \in DOMAIN d.vals : ~shown(t, s)])
             ELSE Validity(TRUE, full_valid[1],
                           [s \in CellsOf(d) |-> ~shown(1, s)])
        ELSE NoValid

\* np.all and sum(axis=0) skip the masked entries of a masked array: np.all
\* takes them for True, the sum for 0, and the sum is masked where every
\* sample is.  Without a time axis valid_data is full_valid itself, for a
\* masked array the masked array of booleans
_check_invalid_data(d, fill_value) ==
    LET full_valid == FullValid(d, fill_value)
        shown(t, s) == ~(d.is_ma /\ d.mask[t][s])
    IN  IF NotAll(d, full_valid)
        THEN IF d.leading_time
             THEN Validity(TRUE,
                      [s \in CellsOf(d) |->
                          Cardinality({t \in DOMAIN d.vals :
                                          shown(t, s) /\ full_valid[t][s]})
                              = TimeShape(d)[1]],
                      [s \in CellsOf(d) |->
                          \A t \in DOMAIN d.vals : ~shown(t, s)])
             ELSE Validity(TRUE, full_valid[1],
                           [s \in CellsOf(d) |-> ~shown(1, s)])
        ELSE NoValid

\* np.logical_not(composite_mask) is a plain array of booleans
_data_masking(d, fill_value) ==
    IF FirstIsMasked(d)
    THEN Validity(TRUE, [s \in CellsOf(d) |-> ~_gen_composite_mask(d)[s]],
                  [s \in CellsOf(d) |-> FALSE])
    ELSE _check_invalid_data(d, fill_value)

\* np.compress(valid_mask, data, axis): the valid cells of every row, in order
RECURSIVE CompressRow(_, _)
CompressRow(row, valid_mask) ==
    IF row = <<>> THEN <<>>
    ELSE (IF Head(valid_mask) THEN <<Head(row)>> ELSE <<>>)
         \o CompressRow(Tail(row), Tail(valid_mask))

CompressValues(vals, valid_mask) ==
    [t \in DOMAIN vals |-> CompressRow(vals[t], valid_mask)]

\* The object as far as its values go: valid_data holds the booleans of
\* m.valid_data, valid_data_hidden which of them are masked
ValueObject(d, m, data, key, err) ==
    [err |-> err, _leading_time |-> d.leading_time, _time_shp |-> TimeShape(d),
     _spatial_shp |-> SpatialShape(d), is_masked |-> m.masked,
     valid_data |-> m.valid_data, valid_data_hidden |-> m.hidden,
     orig |-> d.vals, data |-> data, _curr_data_key |-> key]

\* __init__ refusing its input
Refused(d, err) == ValueObject(d, NoValid, <<>>, NoneKey, err)

\* full_valid = np.ones_like(data, dtype=np.bool) * valid_data;
\* data[~full_valid] = np.nan, for a mask that broadcasts to the shape of the
\* data: the cell of the mask that the cell (t, s) of the data is held
\* against, the shapes aligned at their last axes
MaskCellOf(d, valid_data, t, s) ==
    LET idx == Unravel((t - 1) * Len(d.vals[1]) + (s - 1), d.shape)
        lead == Len(d.shape) - Len(valid_data.shape)
    IN  1 + Ravel([j \in 1..Len(valid_data.shape) |->
                      IF valid_data.shape[j] = 1 THEN 0 ELSE idx[j + lead]],
                  valid_data.shape)

\* For a masked array np.ones_like(data) has the mask of the data and the
\* product keeps True below it, so that ~full_valid is False at a masked
\* cell: the cell is not written, it keeps its value and stays masked
ApplyValidData(d, valid_data) ==
    [d EXCEPT !.vals = [t \in DOMAIN d.vals |-> [s \in CellsOf(d) |->
                           IF \/ valid_data.flat[MaskCellOf(d, valid_data, t, s)]
                              \/ d.is_ma /\ d.mask[t][s]
                           THEN d.vals[t][s] ELSE NaN]]]

\* self.valid_data.sum(), which leaves the masked entries out
NumValidCells(m) ==
    Cardinality({s \in DOMAIN m.valid_data : m.valid_data[s] /\ ~m.hidden[s]})

\* the columns np.compress(valid_mask, ...) keeps: it reads the mask with
\* np.asarray, the booleans below the mask included
NumCompressed(m) == Cardinality({s \in DOMAIN m.valid_data : m.valid_data[s]})

\* __init__ from the masking on: the validity mask, the original bin, and
\* the compression when the data is masked and not already compressed.  The
\* compressed bin has valid_data.sum() columns; np.compress refuses it as
\* out array when it keeps another number of columns
MaskAndCompress(d, fill_value, compressed) ==
    LET m == _data_masking(d, fill_value)
    IN  IF compressed THEN ValueObject(d, m, d.vals, _ORIGDATA, NoErr)
        ELSE IF m.masked
        THEN (IF NumValidCells(m) # NumCompressed(m)
              THEN Refused(d, "ValueError")
              ELSE ValueObject(d, m, CompressValues(d.vals, m.valid_data),
                               _COMPRESSED, NoErr))
        ELSE ValueObject(d, NoValid, d.vals, _ORIGDATA, NoErr)

\* __init__(data, dim_coords, valid_data=valid_data, fill_value=fill_value):
\* a mask none of whose lengths is exceeded by the data is multiplied with
\* np.ones_like(data), which raises ValueError when the two shapes do not
\* broadcast, and the product indexes the data, which raises IndexError when
\* it has not the shape of the data
InitFromData(d, valid_data, fill_value) ==
    IF Len(d.shape) > 4 THEN Refused(d, "AssertionError")
    ELSE IF valid_data = NoMask THEN MaskAndCompress(d, fill_value, FALSE)
    ELSE IF Len(valid_data.shape) <= 3 THEN Refused(d, "ValueError")
    ELSE LET sp == SpatialShape(d)
             zipped == 1..Min(Len(sp), Len(valid_data.shape))
             full_valid == Broadcast(d.shape, valid_data.shape)
         IN  IF \E j \in zipped : sp[j] > valid_data.shape[j]
             THEN Refused(d, "ValueError")
             ELSE IF \E j \in zipped : sp[j] < valid_data.shape[j]
             THEN (IF NotAll(d, [t \in DOMAIN d.vals |-> [s \in CellsOf(d) |->
                                      isfinite(d.vals[t][s])]])
                   THEN Refused(d, "ValueError")
                   ELSE MaskAndCompress(d, fill_value, TRUE))
             ELSE IF ~full_valid[1] THEN Refused(d, "ValueError")
             ELSE IF full_valid[2] # d.shape THEN Refused(d, "IndexError")
             ELSE MaskAndCompress(ApplyValidData(d, valid_data), fill_value, FALSE)

\* inflate_full_grid() on the current data: None when the object is not
\* masked; otherwise a NaN array of shape _time_shp + [len(valid_data)]
\* whose valid cells receive data.flatten() in row-major order.  The
\* assignment full[valid_mask] = data.flatten() takes as many values as
\* valid_mask has True cells, or one value for all of them
inflate_full_grid(o) ==
    IF ~o.is_masked THEN [o |-> o, full |-> <<>>, err |-> NoErr]
    ELSE LET flat == Flatten(o.data)
             cells == 1..Len(o.valid_data)
             nvalid == Cardinality({s \in cells : o.valid_data[s]})
             rows == 1..(IF o._leading_time THEN o._time_shp[1] ELSE 1)
             rank(s) == Cardinality({c \in cells : c <= s /\ o.valid_data[c]})
         IN  IF Len(flat) # Cardinality(rows) * nvalid /\ Len(flat) # 1
             THEN [o |-> o, full |-> <<>>, err |-> "ValueError"]
             ELSE [o |-> o,
                   full |-> [t \in rows |-> [s \in cells |->
                               IF ~o.valid_data[s] THEN NaN
                               ELSE IF Len(flat) = 1 THEN flat[1]
                               ELSE flat[(t - 1) * nvalid + rank(s)]]],
                   err |-> NoErr]

\* The input arrays: spatial grids of 2 * NRowLen cells in one, two and four
\* dimensions, with and without a leading time axis of NTimes samples.  In a
\* plain array up to MaxBad cells are NaN or the fill value, or one cell is
\* infinite; in a masked array up to MaxBad cells are masked, and every
\* value is finite or one cell of the first sample, masked or not, is NaN;
\* an external mask marks up to MaxBad cells of a dense array, or of a
\* masked array with one cell or every cell masked, and has the spatial
\* shape of the data or four axes of its own.
SpatialShapes == {<<2 * NRowLen>>, <<2, NRowLen>>, <<1, 1, 2, NRowLen>>}
DenseShapes == SpatialShapes \cup {<<2, NRowLen, 1>>}
MaskShapes(sp) == {sp, <<2, NRowLen, 1, 1>>, <<1, 2, NRowLen, 1>>}
BadKinds == {NaN, FillValue}
InputCells(leading_time) ==
    (1..(IF leading_time THEN NTimes ELSE 1)) \X (1..(2 * NRowLen))
BadCells(leading_time) ==
    {B \in SUBSET InputCells(leading_time) : Cardinality(B) <= MaxBad}
InputShapeOf(leading_time, sp) == IF leading_time THEN <<NTimes>> \o sp ELSE sp
NoCellMasked(leading_time) ==
    [t \in 1..(IF leading_time THEN NTimes ELSE 1) |->
        [s \in 1..(2 * NRowLen) |-> FALSE]]

PlainArray(leading_time, sp, bad) ==
    ArrayInput(InputShapeOf(leading_time, sp), leading_time,
               [t \in 1..(IF leading_time THEN NTimes ELSE 1) |->
                   [s \in 1..(2 * NRowLen) |->
                       IF <<t, s>> \in DOMAIN bad THEN bad[<<t, s>>]
                       ELSE CellValue(t, s)]],
               NoCellMasked(leading_time), FALSE)

MaskedArray(leading_time, sp, B, bad) ==
    ArrayInput(InputShapeOf(leading_time, sp), leading_time,
               [t \in 1..(IF leading_time THEN NTimes ELSE 1) |->
                   [s \in 1..(2 * NRowLen) |->
                       IF <<t, s>> \in DOMAIN bad THEN bad[<<t, s>>]
                       ELSE CellValue(t, s)]],
               [t \in 1..(IF leading_time THEN NTimes ELSE 1) |->
                   [s \in 1..(2 * NRowLen) |-> <<t, s>> \in B]],
               TRUE)

ExternalMask(sp, B) ==
    [shape |-> sp, flat |-> [s \in 1..(2 * NRowLen) |-> s \notin B]]

ConstructArgs(data, valid_data, fill_value) ==
    [data |-> data, valid_data |-> valid_data, fill_value |-> fill_value]

\* obj = DataObject(data, dim_coords, valid_data=..., fill_value=...)
ApplyInit ==
    \E a \in {last.args} :
        \E o \in {InitFromData(a.data, a.valid_data, a.fill_value)} :
            Apply("__init__", o, o.err)

\* obj.inflate_full_grid() on the object just constructed: last.ret holds
\* the object before the call, the object after it and the array returned
ApplyInflate ==
    /\ last.op = "__init__" /\ last.obj = 0 /\ last.err = NoErr
    /\ \E r \in {inflate_full_grid(last.ret)} :
           last' = Returned("inflate_full_grid", last.args,
                            [before |-> last.ret, after |-> r.o, full |-> r.full],
                            r.err)
    /\ nops' = nops + 1
    /\ UNCHANGED <<objs, heap>>

InitConstruct ==
    /\ objs = NoObjects
    /\ heap = NoArrays
    /\ nops = 0
    /\ \E lt \in Bool :
        \/ \E sp \in SpatialShapes : \E B \in BadCells(lt) :
           \E bad \in [B -> BadKinds] : \E f \in {NoFill, FillValue} :
               last = Arguments(ConstructArgs(PlainArray(lt, sp, bad), NoMask, f))
        \/ \E sp \in SpatialShapes : \E c \in InputCells(lt) :
           \E f \in {NoFill, FillValue} :
               last = Arguments(ConstructArgs(PlainArray(lt, sp, c :> Inf), NoMask, f))
        \/ \E sp \in SpatialShapes : \E B \in BadCells(lt) :
               last = Arguments(ConstructArgs(MaskedArray(lt, sp, B, <<>>),
                                              NoMask, NoFill))
        \/ \E sp \in SpatialShapes : \E B \in BadCells(lt) :
           \E s \in 1..(2 * NRowLen) :
               last = Arguments(ConstructArgs(
                          MaskedArray(lt, sp, B, <<1, s>> :> NaN), NoMask, NoFill))
        \/ \E sp \in DenseShapes : \E shape \in MaskShapes(sp) :
           \E B \in SUBSET (1..(2 * NRowLen)) :
               /\ Cardinality(B) <= MaxBad
               /\ last = Arguments(ConstructArgs(PlainArray(lt, sp, <<>>),
                                                 ExternalMask(shape, B), NoFill))
        \/ \E sp \in DenseShapes : \E shape \in MaskShapes(sp) :
           \E B \in SUBSET (1..(2 * NRowLen)) :
           \E M \in {{c} : c \in InputCells(lt)} \cup {InputCells(lt)} :
           \E bad \in {<<>>} \cup {<<1, s>> :> NaN : s \in 1..(2 * NRowLen)} :
               /\ Cardinality(B) <= MaxBad
               /\ last = Arguments(ConstructArgs(MaskedArray(lt, sp, M, bad),
                                                 ExternalMask(shape, B), NoFill))
NextConstruct ==
    \/ ApplyInit
    \/ ApplyInflate
SpecConstruct == InitConstruct /\ [][NextConstruct]_vars

\* ---------------------------------------------------------------------
\* inflate_full_grid(data, expand_axis, reshape_orig) with explicit data,
\* seen at the level of shapes.

\* position (from 1) of the axis that Python's index i names in a list of
\* n entries
PyAxis(i, n) == IF i < 0 THEN n + i + 1 ELSE i + 1

\* list.pop(i)
PyPop(list, i) ==
    SubSeq(list, 1, PyAxis(i, Len(list)) - 1)
        \o SubSeq(list, PyAxis(i, Len(list)) + 1, Len(list))

\* list.insert(i, x): before the entry that i names; an index beyond either
\* end is clipped to the end
PyInsert(list, i, x) ==
    LET at == IF i < 0 THEN Max(0, Len(list) + i) ELSE Min(i, Len(list))
    IN  SubSeq(list, 1, at) \o <<x>> \o SubSeq(list, at + 1, Len(list))

\* for dim_idx, dim_len in enumerate(shp):
\*     if dim_len != self.valid_data.shape[0]:
\*         valid_mask = np.expand_dims(valid_mask, dim_idx)
\* from entry k on, mask being the shape of valid_mask so far; np.expand_dims
\* refuses an axis beyond the dimensions the array has
RECURSIVE ExpandMask(_, _, _, _)
ExpandMask(shp, full_len, k, mask) ==
    IF k > Len(shp) THEN <<TRUE, mask>>
    ELSE IF shp[k] = full_len THEN ExpandMask(shp, full_len, k + 1, mask)
    ELSE IF k - 1 > Len(mask) THEN <<FALSE, mask>>
    ELSE ExpandMask(shp, full_len, k + 1,
                    SubSeq(mask, 1, k - 1) \o <<1>> \o SubSeq(mask, k, Len(mask)))

\* new_shp.pop(expand_axis), then new_shp.insert(expand_axis, dim_len) for
\* the first j spatial lengths taken from the last to the first
RECURSIVE InsertSpatial(_, _, _, _)
InsertSpatial(new_shp, expand_axis, spatial_shp, j) ==
    IF j = 0 THEN new_shp
    ELSE InsertSpatial(PyInsert(new_shp, expand_axis, spatial_shp[j]),
                       expand_axis, spatial_shp, j - 1)

Inflated(o, ret, shape, err) == [o |-> o, ret |-> ret, shape |-> shape, err |-> err]

\* inflate_full_grid(data, expand_axis, reshape_orig) for data of the given
\* shape: the shape of the array it returns
inflate_data(o, data_shape, expand_axis, reshape_orig) ==
    IF ~o.is_masked THEN Inflated(o, "None", <<>>, NoErr)
    ELSE LET ax == PyAxis(expand_axis, Len(data_shape))
             full_len == Len(o.valid_data)
             num_valid_points == Cardinality({s \in 1..full_len : o.valid_data[s]})
             shp == [data_shape EXCEPT ![ax] = full_len]
             mask == ExpandMask(shp, full_len, 1, <<full_len>>)
             both == Broadcast(shp, mask[2])
         IN  IF data_shape[ax] # num_valid_points
             THEN Inflated(o, "", <<>>, "ValueError")
             ELSE IF ~mask[1] THEN Inflated(o, "", <<>>, "AxisError")
             ELSE IF ~both[1] THEN Inflated(o, "", <<>>, "ValueError")
             ELSE IF both[2] # shp THEN Inflated(o, "", <<>>, "IndexError")
             ELSE IF /\ num_valid_points * (Product(shp) \div full_len)
                            # Product(data_shape)
                     /\ Product(data_shape) # 1
             THEN Inflated(o, "", <<>>, "ValueError")
             ELSE IF reshape_orig
             THEN Inflated(o, "array",
                           InsertSpatial(PyPop(shp, expand_axis), expand_axis,
                                         o._spatial_shp, Len(o._spatial_shp)),
                           NoErr)
             ELSE Inflated(o, "array", shp, NoErr)

\* The objects inflate_full_grid is called on are built from plain arrays in
\* which up to MaxBad cells of the first sample are NaN (none: the object
\* is not masked); the data has one, two or three axes whose lengths are 1,
\* the number of valid cells, one more than that, or the full spatial length
InflateShapes(dims) ==
    {<<a>> : a \in dims} \cup {<<a, b>> : a, b \in dims}
        \cup {<<a, b, c>> : a, b, c \in dims}
ExpandAxes == {-1, 0}

ApplyInflateData ==
    \E a \in {last.args} :
        \E r \in {inflate_data(a.obj, a.data_shape, a.expand_axis, a.reshape_orig)} :
            Apply("inflate_full_grid", r, r.err)

InitInflate ==
    /\ objs = NoObjects
    /\ heap = NoArrays
    /\ nops = 0
    /\ \E lt \in Bool, sp \in {<<2 * NRowLen>>, <<2, NRowLen>>} :
       \E B \in SUBSET ({1} \X (1..(2 * NRowLen))) :
           /\ Cardinality(B) <= MaxBad
           /\ \E shape \in InflateShapes({1, 2 * NRowLen - Cardinality(B),
                                          2 * NRowLen - Cardinality(B) + 1,
                                          2 * NRowLen}) :
              \E axis \in ExpandAxes, reshape_orig \in Bool :
                  last = Arguments(
                      [obj |-> InitFromData(PlainArray(lt, sp, [c \in B |-> NaN]),
                                            NoMask, NoFill),
                       data_shape |-> shape, expand_axis |-> axis,
                       reshape_orig |-> reshape_orig])
NextInflate == ApplyInflateData
SpecInflate == InitInflate /\ [][NextInflate]_vars

\* ---------------------------------------------------------------------
\* Construction seen at the level of dim_coords: the dict that gives, for a
\* named dimension, its axis index and its coordinate vector.

MaxDimLen == 3      \* longest axis of the arrays dim_coords is matched with

TIME == "time"
LAT == "lat"
NoDimCoords == [given |-> FALSE, dict |-> EmptyDict]     \* dim_coords=None
DimCoords(dict) == [given |-> TRUE, dict |-> dict]
Coord(len) == [j \in 1..len |-> j]

\* {key: value[0] for key, value in dim_coords.items()
\*  if shape[value[0]] == len(value[1])}
_match_dims(shape, dict) ==
    LET matched == {key \in DOMAIN dict : shape[dict[key][1] + 1] = Len(dict[key][2])}
    IN  [key \in matched |-> dict[key][1]]

\* what the dim_coords section of __init__ leaves in the object; _dim_idx is
\* <<>> for None and <<dict>> for a dict
TimeDim(err, leading_time, time_shp, spatial_shp, altered, dim_idx) ==
    [err |-> err, _leading_time |-> leading_time, _time_shp |-> time_shp,
     _spatial_shp |-> spatial_shp, _altered_time_coords |-> altered,
     _dim_idx |-> dim_idx]

\* __init__, "Match dimension coordinate vectors"
MatchTimeDim(shape, dim_coords) ==
    IF dim_coords.given
    THEN IF TIME \in DOMAIN dim_coords.dict
         THEN IF dim_coords.dict[TIME][1] # 0
              THEN TimeDim("ValueError", FALSE, <<>>, <<>>, EmptyDict, <<>>)
              ELSE TimeDim(NoErr, TRUE, <<shape[1]>>, Tail(shape),
                           _ORIGDATA :> dim_coords.dict[TIME][2],
                           <<_match_dims(shape, dim_coords.dict)>>)
         ELSE TimeDim(NoErr, FALSE, <<>>, shape, EmptyDict,
                      <<_match_dims(shape, dim_coords.dict)>>)
    ELSE TimeDim(NoErr, FALSE, <<>>, shape, EmptyDict, <<>>)

\* self._flat_spatial_shp = [np.product(self._spatial_shp)]: the product of
\* no length at all is the float 1.0, which reshape does not take for a
\* length
FlatShapeIsFloat(spatial_shp) == spatial_shp = <<>>

\* _flatten_curr_data(): self.data.reshape(self._time_shp +
\* self._flat_spatial_shp), or reshape(self._flat_spatial_shp) without a
\* time axis
_flatten_curr_data(r) ==
    IF FlatShapeIsFloat(r._spatial_shp) THEN [r EXCEPT !.err = "TypeError"] ELSE r

\* __init__ as far as the time dimension goes: data with invalid values
\* (masked) is flattened and compressed; data without ends in
\* reset_data('orig'), whose _set_time_coord refuses a coordinate that has
\* not one entry per sample
InitTimeDim(shape, dim_coords, masked) ==
    LET r == MatchTimeDim(shape, dim_coords)
    IN  IF r.err # NoErr THEN r
        ELSE IF masked THEN _flatten_curr_data(r)
        ELSE IF r._leading_time
                /\ Len(r._altered_time_coords[_ORIGDATA]) # shape[1]
        THEN [r EXCEPT !.err = "ValueError"]
        ELSE r

\* The arrays and dim_coords the construction is tried with: one and two
\* axes of up to MaxDimLen entries; no dim_coords, LAT only, or TIME at
\* index 0 or 1 with a coordinate of any length up to MaxDimLen + 1, with or
\* without LAT on the last axis
DimShapes ==
    {<<n>> : n \in 1..MaxDimLen} \cup {<<n, m>> : n, m \in 1..MaxDimLen}
DimCoordsFor(shape) ==
    LET lat == LAT :> <<Len(shape) - 1, Coord(shape[Len(shape)])>>
        times == {TIME :> <<idx, Coord(len)>> : idx \in 0..1, len \in 0..(MaxDimLen + 1)}
    IN  {NoDimCoords, DimCoords(EmptyDict), DimCoords(lat)}
        \cup {DimCoords(t) : t \in times}
        \cup {DimCoords(t @@ lat) : t \in {u \in times : Len(shape) = 2}}

ApplyInitTimeDim ==
    \E a \in {last.args} :
        \E r \in {InitTimeDim(a.shape, a.dim_coords, a.masked)} :
            Apply("__init__", r, r.err)

InitDims ==
    /\ objs = NoObjects
    /\ heap = NoArrays
    /\ nops = 0
    /\ \E shape \in DimShapes : \E dc \in DimCoordsFor(shape) : \E masked \in Bool :
           last = Arguments([shape |-> shape, dim_coords |-> dc, masked |-> masked])
NextDims == ApplyInitTimeDim
SpecDims == InitDims /\ [][NextDims]_vars

\* ---------------------------------------------------------------------
\* area_weight_data seen at the level of the weight it applies.


NoCellArea == <<>>                                            \* cell_area=None

\* scale = abs(np.cos(np.radians(lat)))
AbsCosLat(lat) == [kind |-> "abs(cos(radians(lat)))", of |-> lat, over |-> 1]
\* scale = self.cell_area / self.cell_area.sum()
CellAreaFraction(cell_area) ==
    [kind |-> "cell_area/sum", of |-> cell_area, over |-> SumOf(cell_area)]
NoScale == [kind |-> "", of |-> <<>>, over |-> 0]

\* the object area_weight_data works on: its configuration, the keys that
\* have a bin, the attribute area_weighted and the current stage
WeightObject(cell_area, irregular_grid, dim_idx, dim_coords, save_none, saved_before) ==
    [cell_area |-> cell_area, irregular_grid |-> irregular_grid,
     _dim_idx |-> dim_idx, _dim_coords |-> dim_coords, _save_none |-> save_none,
     bins |-> IF saved_before THEN {_ORIGDATA, _AWGHT} ELSE {_ORIGDATA},
     area_weighted |-> IF saved_before THEN "bin" ELSE NoneKey,
     data |-> "bin",
     _curr_data_key |-> _ORIGDATA,
     _ops_performed |-> IF saved_before
                        THEN (_ORIGDATA :> <<_ORIGDATA>>)
                                 @@ (_AWGHT :> <<_ORIGDATA, _AWGHT>>)
                        ELSE (_ORIGDATA :> <<_ORIGDATA>>)]

Weighted(o, scale, use_sqrt, err) ==
    [o |-> o, scale |-> scale, sqrt |-> use_sqrt, err |-> err]

\* area_weight_data(use_sqrt, save): the choice of the weight, the bin, the
\* result and the record of the stage
area_weight(o, use_sqrt, save) ==
    IF o.cell_area = NoCellArea /\ o.irregular_grid
    THEN Weighted(o, NoScale, use_sqrt, "ValueError")
    ELSE IF o.cell_area = NoCellArea /\ o._dim_idx = <<>>
    THEN Weighted(o, NoScale, use_sqrt, "AttributeError")
    ELSE IF o.cell_area = NoCellArea /\ LAT \notin DOMAIN o._dim_idx[1]
    THEN Weighted(o, NoScale, use_sqrt, "ValueError")
    ELSE LET do_lat_based == o.cell_area = NoCellArea
             binned == IF save /\ ~o._save_none
                       THEN [o EXCEPT !.bins = @ \cup {_AWGHT},
                                      !.area_weighted = "new bin"]
                       ELSE o
             scale == IF do_lat_based THEN AbsCosLat(o._dim_coords[LAT][2])
                      ELSE CellAreaFraction(o.cell_area)
             stored == IF binned.area_weighted # NoneKey
                       THEN [binned EXCEPT !.data = binned.area_weighted]
                       ELSE [binned EXCEPT !.data = "result"]
         IN  Weighted([stored EXCEPT
                          !._ops_performed =
                              (_AWGHT :> Append(@[o._curr_data_key], _AWGHT)) @@ @,
                          !._curr_data_key = _AWGHT],
                      scale, use_sqrt, NoErr)

\* The configurations: a latitude axis of up to MaxDimLen cells; cell areas
\* given or not; grid regular or not; no dim_coords, dim_coords without LAT,
\* with LAT, or with a LAT coordinate that does not fit the axis
WeightDimCoords(n) ==
    {NoDimCoords, DimCoords(EmptyDict), DimCoords(LAT :> <<0, Coord(n)>>),
     DimCoords(LAT :> <<0, Coord(n + 1)>>)}

ApplyAreaWeight ==
    \E a \in {last.args} :
        \E r \in {area_weight(a.obj, a.use_sqrt, a.save)} :
            Apply("area_weight_data", r, r.err)

InitWeight ==
    /\ objs = NoObjects
    /\ heap = NoArrays
    /\ nops = 0
    /\ \E n \in 1..MaxDimLen : \E dc \in WeightDimCoords(n) :
       \E cell_area \in {NoCellArea, Coord(n)} :
       \E irregular_grid, save_none, saved_before, use_sqrt, save \in Bool :
           last = Arguments(
               [obj |-> WeightObject(cell_area, irregular_grid,
                                     MatchTimeDim(<<n>>, dc)._dim_idx,
                                     dc.dict, save_none, saved_before),
                use_sqrt |-> use_sqrt, save |-> save])
NextWeight == ApplyAreaWeight
SpecWeight == InitWeight /\ [][NextWeight]_vars

\* ---------------------------------------------------------------------
\* Hdf5DataObject._determine_chunk(leading_time, shape, dtype, size)

MaxChunkMB == 2       \* largest chunk size, in MB, that is asked for

MB == 1024 * 1024     \* size*1024**2

RECURSIVE Power(_, _)
Power(x, n) == IF n = 0 THEN 1 ELSE x * Power(x, n - 1)

\* the largest r with r**n <= x
FloorRoot(x, n) == CHOOSE r \in 0..x : Power(r, n) <= x /\ Power(r + 1, n) > x

\* int(x ** (1./n)) in double precision, for x >= 1 and n <= 4: 1., 1./2
\* and 1./4 are exact and so are the roots; 1./3 is a little less than a
\* third, and the cube root of a perfect cube r**3 with r >= 4 comes out
\* one unit in the last place below r
PyIntRoot(x, n) ==
    IF n = 3 /\ FloorRoot(x, 3) >= 4 /\ Power(FloorRoot(x, 3), 3) = x
    THEN FloorRoot(x, 3) - 1
    ELSE FloorRoot(x, n)

_determine_chunk(leading_time, shape, itemsize, size) ==
    IF leading_time
    THEN LET sptl_size == Product(Tail(shape)) * itemsize
             rows_in_chunk == Min((size * MB) \div sptl_size, shape[1])
         IN  <<rows_in_chunk>> \o Tail(shape)
    ELSE LET nelem == Product(shape)
             elem_in_chunk == (nelem * itemsize) \div (size * MB)
         IN  IF elem_in_chunk = 0 THEN shape
             ELSE [j \in 1..Len(shape) |-> PyIntRoot(elem_in_chunk, Len(shape))]

\* The arrays: one to three axes of 1, 16, 128 or 512 entries, items of 1, 4
\* or 8 bytes, chunks of 1..MaxChunkMB MB
ChunkDims == {1, 16, 128, 512}
ChunkShapes ==
    {<<a>> : a \in ChunkDims} \cup {<<a, b>> : a, b \in ChunkDims}
        \cup {<<a, b, c>> : a, b, c \in ChunkDims}
ItemSizes == {1, 4, 8}

ApplyDetermineChunk ==
    \E a \in {last.args} :
        Apply("_determine_chunk",
              _determine_chunk(a.leading_time, a.shape, a.itemsize, a.size), NoErr)

InitChunk ==
    /\ objs = NoObjects
    /\ heap = NoArrays
    /\ nops = 0
    /\ \E lt \in Bool, shape \in ChunkShapes, b \in ItemSizes, size \in 1..MaxChunkMB :
           last = Arguments([leading_time |-> lt, shape |-> shape,
                             itemsize |-> b, size |-> size])
NextChunk == ApplyDetermineChunk
SpecChunk == InitChunk /\ [][NextChunk]_vars

\* ---------------------------------------------------------------------
\* _handle_year_zero_units(time_as_num, tunits, calendar): numeric times in
\* days, decoded against a reference date of year 0001.  A string is the
\* sequence of its characters.

MaxYearsBack == 1       \* the reference years are -MaxYearsBack..0
MaxSampleYears == 3     \* the samples lie in the first MaxSampleYears years

Digits == <<"0", "1", "2", "3", "4", "5", "6", "7", "8", "9">>
DigitOf(c) == CHOOSE d \in 0..9 : Digits[d + 1] = c

\* int(s) for a string of digits with an optional leading minus sign
RECURSIVE PyIntDigits(_)
PyIntDigits(s) ==
    IF s = <<>> THEN 0
    ELSE 10 * PyIntDigits(SubSeq(s, 1, Len(s) - 1)) + DigitOf(s[Len(s)])
PyInt(s) == IF Head(s) = "-" THEN 0 - PyIntDigits(Tail(s)) ELSE PyIntDigits(s)

\* tunits.index(sub): the offset (from 0) of the first occurrence
PyStrIndex(str, sub) ==
    CHOOSE i \in 0..(Len(str) - Len(sub)) :
        /\ SubSeq(str, i + 1, i + Len(sub)) = sub
        /\ \A j \in 0..(i - 1) : SubSeq(str, j + 1, j + Len(sub)) # sub

SinceStr == <<"s", "i", "n", "c", "e", " ">>
DaysSinceStr == <<"d", "a", "y", "s", " ">> \o SinceStr
YearOneStr == <<"0", "0", "0", "1", "-", "0", "1", "-", "0", "1", " ",
                "0", "0", ":", "0", "0", ":", "0", "0">>

\* the units string written for a reference year y: 'days since YYYY-01-01'
\* with the year in four characters
Digit(y, place) == Digits[((y \div place) % 10) + 1]
Year4(y) ==
    IF y < 0 THEN <<"-", Digit(0 - y, 100), Digit(0 - y, 10), Digit(0 - y, 1)>>
    ELSE <<Digit(y, 1000), Digit(y, 100), Digit(y, 10), Digit(y, 1)>>
UnitsSince(y) == DaysSinceStr \o Year4(y) \o <<"-", "0", "1", "-", "0", "1">>

NoLeap == "noleap"
\* calendar=None: the standard calendar, Julian in these years
IsLeap(calendar, y) == calendar # NoLeap /\ y % 4 = 0
DaysInYear(calendar, y) == IF IsLeap(calendar, y) THEN 366 ELSE 365
MonthLengths(calendar, y) ==
    <<31, IF IsLeap(calendar, y) THEN 29 ELSE 28, 31, 30, 31, 30, 31, 31, 30, 31, 30, 31>>

RECURSIVE MonthOf(_, _, _)
MonthOf(lengths, day_of_year, m) ==
    IF day_of_year < lengths[m] THEN <<m, day_of_year + 1>>
    ELSE MonthOf(lengths, day_of_year - lengths[m], m + 1)

Date(year, month, day) ==
    [year |-> year, month |-> month, day |-> day, hour |-> 0, minute |-> 0, second |-> 0]

\* ncf.num2date(n, 'days since 0001-01-01 00:00:00', calendar) for a whole
\* number of days n >= 0, counting on from year y
RECURSIVE num2date(_, _, _)
num2date(n, calendar, y) ==
    IF n < DaysInYear(calendar, y)
    THEN Date(y, MonthOf(MonthLengths(calendar, y), n, 1)[1],
                 MonthOf(MonthLengths(calendar, y), n, 1)[2])
    ELSE num2date(n - DaysInYear(calendar, y), calendar, y + 1)

MINYEAR == 1            \* datetime.MINYEAR
MAXYEAR == 9999         \* datetime.MAXYEAR

YearZeroResult(time_yrs_list, new_units, err) ==
    [time_yrs_list |-> time_yrs_list, new_units |-> new_units, err |-> err]

_handle_year_zero_units(time_as_num, tunits, calendar) ==
    LET since_yr_idx == PyStrIndex(tunits, SinceStr) + 6
        year == PyInt(SubSeq(tunits, since_yr_idx + 1, since_yr_idx + 4))
        year_diff == year - 1
        new_units == SubSeq(tunits, 1, since_yr_idx) \o YearOneStr
        time_yrs == [i \in DOMAIN time_as_num |-> num2date(time_as_num[i], calendar, 1)]
    IN  IF \E i \in DOMAIN time_yrs :
              \/ time_yrs[i].year + year_diff < MINYEAR
              \/ time_yrs[i].year + year_diff > MAXYEAR
        THEN YearZeroResult(<<>>, <<>>, "ValueError")
        ELSE YearZeroResult(
                 [i \in DOMAIN time_yrs |->
                     Date(time_yrs[i].year + year_diff, time_yrs[i].month, 1)],
                 new_units, NoErr)

\* The samples: the first day, the first of February and the last day of
\* the first year, and the first days of January and March of the years
\* after it; one or two of them in a series
SampleDays ==
    {0, 31, 364} \cup {365 * k + j : k \in 1..(MaxSampleYears - 1), j \in {0, 59}}
SampleSeries == {<<a>> : a \in SampleDays} \cup {<<a, b>> : a, b \in SampleDays}
Calendars == {NoneKey, NoLeap}

ApplyYearZero ==
    \E a \in {last.args} :
        \E r \in {_handle_year_zero_units(a.time_as_num, a.tunits, a.calendar)} :
            Apply("_handle_year_zero_units", r, r.err)

InitYearZero ==
    /\ objs = NoObjects
    /\ heap = NoArrays
    /\ nops = 0
    /\ \E y \in (0 - MaxYearsBack)..0, times \in SampleSeries, cal \in Calendars :
           last = Arguments([time_as_num |-> times, tunits |-> UnitsSince(y),
                             calendar |-> cal, year |-> y])
NextYearZero == ApplyYearZero
SpecYearZero == InitYearZero /\ [][NextYearZero]_vars

(***************************************************************************)
(* Properties                                                              *)
(***************************************************************************)
\* the length of the sampling dimension of the current data
SampleLen0(i) == heap[objs[i].data].shape[1]

\* the first stage of every chain: the compressed data when the input had
\* invalid values, the original data otherwise
FirstChain(o) == IF o.is_masked THEN <<_ORIGDATA, _COMPRESSED>> ELSE <<_ORIGDATA>>

\* the saved chain time_average_resample -> calc_running_mean -> calc_anomaly
\* has just been computed on object 1
AfterSavedChain ==
    /\ objs[1]._leading_time
    /\ objs[1]._curr_data_key = _ANOMALY
    /\ {ResampleKey, _RUNMEAN, _ANOMALY} \subseteq DOMAIN objs[1]._data_bins
    /\ objs[1]._ops_performed[_ANOMALY] =
           FirstChain(objs[1]) \o <<ResampleKey, _RUNMEAN, _ANOMALY>>

\* C1: on an object with a leading time axis, after the saved chain
\* time_average_resample -> calc_running_mean -> calc_anomaly, reset_data on
\* the running-mean key returns with the running-mean bin as the current
\* data, the running-mean key as the current stage key, the TIME coordinate
\* equal to the vector recorded when the running mean was computed, and
\* timeShape equal to that bin's sample length.
C1_ResetToRunningMean ==
    [][AfterSavedChain /\ ResetData(1, _RUNMEAN) =>
          /\ last'.err = NoErr
          /\ objs'[1].data = objs[1]._data_bins[_RUNMEAN]
          /\ objs'[1]._curr_data_key = _RUNMEAN
          /\ objs'[1].time_coord = objs[1]._altered_time_coords[_RUNMEAN]
          /\ objs'[1]._time_shp = <<heap[objs[1]._data_bins[_RUNMEAN]].shape[1]>>]_vars

\* C2: for an object with a leading time axis, after every operation
\* (whether it returned or raised) the sample-axis length of the current
\* data equals timeShape[0].
C2_TimeShapeIsSampleLength ==
    \A i \in ObjIds :
        objs[i].exists /\ objs[i]._leading_time =>
            objs[i]._time_shp = <<SampleLen0(i)>>

\* C3: after any sequence of construction, transform, reset_data and copy
\* operations, every stage key present in _data_bins also has an entry in
\* _ops_performed.
C3_BinsHaveHistory ==
    \A i \in ObjIds :
        objs[i].exists =>
            DOMAIN objs[i]._data_bins \subseteq DOMAIN objs[i]._ops_performed

\* the current stage key of object i has a history chain, and the chain
\* holds a key with a recorded time coordinate
ChainHasTimeCoord(i) ==
    /\ objs[i]._curr_data_key \in DOMAIN objs[i]._ops_performed
    /\ \E n \in 1..Len(objs[i]._ops_performed[objs[i]._curr_data_key]) :
           objs[i]._ops_performed[objs[i]._curr_data_key][n]
               \in DOMAIN objs[i]._altered_time_coords

\* C4: for an object with a leading time axis, in every reachable state
\* (of the constructed object and of a copy) the history chain of the
\* current stage key contains a key present in _altered_time_coords.
C4_ChainReachesTimeCoord ==
    \A i \in ObjIds :
        objs[i].exists /\ objs[i]._leading_time => ChainHasTimeCoord(i)

\* the last call was a transform of object i that raised
TransformAborted(i) ==
    /\ last'.op \in Transforms
    /\ last'.obj = i
    /\ last'.err # NoErr

\* C5: whenever a transform method aborts with an error, the object's
\* current stage key, current data reference, stage history and TIME
\* coordinate are what they were before the call.
C5_AbortedTransformChangesNothing ==
    [][\A i \in ObjIds :
          TransformAborted(i) =>
              /\ objs'[i]._curr_data_key = objs[i]._curr_data_key
              /\ objs'[i].data = objs[i].data
              /\ objs'[i]._ops_performed = objs[i]._ops_performed
              /\ objs'[i].time_coord = objs[i].time_coord]_vars

\* C6: every transform stage method called on an object that has no
\* leading time axis raises an error and computes no new stage.
C6_TransformsNeedLeadingTime ==
    [][\A i \in ObjIds :
          /\ last'.op \in Transforms
          /\ last'.obj = i
          /\ ~objs[i]._leading_time
          => /\ last'.err # NoErr
             /\ objs'[i] = objs[i]]_vars

\* object i's attributes and the arrays it refers to are left as they were
Untouched(i) ==
    /\ objs'[i] = objs[i]
    /\ \A a \in Roots(objs[i]) : heap'[a] = heap[a]

\* C7: after copy(), a transform, a reset or an in-place write to the
\* current buffer made on one of the two objects (the copy or the source)
\* leaves the other object's bins, current data, current stage key, stage
\* history, shapes, valid mask and coordinates unchanged.
C7_CopyIsIndependent ==
    [][\A i \in ObjIds :
          last'.obj = i /\ last'.op # "copy" /\ objs[3 - i].exists
          => Untouched(3 - i)]_vars

\* object 1 was copied at the standardized stage, and since then the copy
\* was taken through a running mean, which replaced its TIME coordinate and
\* its bins, and its current buffer was written in place
C7_Witness ==
    /\ objs[1].exists /\ objs[2].exists
    /\ last.op = "write" /\ last.obj = 2
    /\ objs[1]._curr_data_key = _STD
    /\ objs[2]._curr_data_key = _RUNMEAN
    /\ _STD \in DOMAIN objs[2]._data_bins
    /\ objs[2].time_coord # objs[1].time_coord
    /\ heap[objs[2].data].dirty
    /\ \A a \in Roots(objs[1]) : ~heap[a].dirty

\* the last call was a copy() of object i that returned the other object
Copied(i) ==
    /\ last'.op = "copy"
    /\ last'.obj = i
    /\ last'.err = NoErr

\* C8 as stated: the copy's _data_bins and _altered_time_coords hold exactly
\* the source's current stage key, and its history is one entry whose chain
\* lists only the current stage key.
C8_CopyChainIsCurrentKeyOnly ==
    [][\A i \in ObjIds :
          Copied(i) =>
              /\ DOMAIN objs'[3 - i]._data_bins = {objs[i]._curr_data_key}
              /\ DOMAIN objs'[3 - i]._altered_time_coords = {objs[i]._curr_data_key}
              /\ objs'[3 - i]._ops_performed =
                     (objs[i]._curr_data_key :> <<objs[i]._curr_data_key>>)]_vars

\* C8, amended: the copy's _data_bins and _altered_time_coords hold exactly
\* the source's current stage key, and its history is one entry, for that
\* key, whose chain is the whole chain the source recorded for the key.
C8_CopyKeepsCurrentStageOnly ==
    [][\A i \in ObjIds :
          Copied(i) =>
              /\ DOMAIN objs'[3 - i]._data_bins = {objs[i]._curr_data_key}
              /\ DOMAIN objs'[3 - i]._altered_time_coords = {objs[i]._curr_data_key}
              /\ objs'[3 - i]._ops_performed =
                     (objs[i]._curr_data_key :>
                          objs[i]._ops_performed[objs[i]._curr_data_key])]_vars

\* a copy was made of an object that had several bins, several recorded
\* coordinates and a current stage with a chain of several keys
C8_Witness ==
    /\ last.op = "copy" /\ last.err = NoErr
    /\ objs[last.obj].exists /\ objs[3 - last.obj].exists
    /\ Cardinality(DOMAIN objs[last.obj]._data_bins) > 1
    /\ Cardinality(DOMAIN objs[last.obj]._altered_time_coords) > 1
    /\ Len(objs[last.obj]._ops_performed[objs[last.obj]._curr_data_key]) > 1
    /\ objs[3 - last.obj]._curr_data_key = objs[last.obj]._curr_data_key
    /\ Cardinality(DOMAIN objs[3 - last.obj]._data_bins) = 1

\* the copy n of source o holds exactly the samples that di selects
HoldsSelection(o, n, h, di) ==
    LET sel == SelectedIndices(Len(o.time_coord), di)
    IN  /\ h[n.data].shape[1] = Len(sel)
        /\ Len(n.time_coord) = Len(sel)
        /\ n._time_shp = <<Len(sel)>>
        /\ \A j \in 1..Len(sel) : n.time_coord[j] = o.time_coord[sel[j] + 1]

DescendsFromEofProj(i) ==
    \E n \in 1..Len(objs[i]._ops_performed[objs[i]._curr_data_key]) :
        objs[i]._ops_performed[objs[i]._curr_data_key][n] = _EOFPROJ

\* C10: the object returned by copy() has the source's EOF basis, singular
\* values and EOF stats exactly when the source's current stage is the EOF
\* projection or has it in its history chain, and has no basis, no singular
\* values and empty stats otherwise; the source keeps its own.
C10_CopyKeepsEofsOfEofStages ==
    [][\A i \in ObjIds :
          Copied(i) =>
              /\ IF objs[i]._curr_data_key = _EOFPROJ \/ DescendsFromEofProj(i)
                 THEN /\ objs'[3 - i]._eofs = objs[i]._eofs
                      /\ objs'[3 - i]._svals = objs[i]._svals
                      /\ objs'[3 - i]._eof_stats = objs[i]._eof_stats
                 ELSE /\ objs'[3 - i]._eofs = <<>>
                      /\ objs'[3 - i]._svals = <<>>
                      /\ objs'[3 - i]._eof_stats = EmptyDict
              /\ objs'[i]._eofs = objs[i]._eofs
              /\ objs'[i]._svals = objs[i]._svals
              /\ objs'[i]._eof_stats = objs[i]._eof_stats]_vars

\* a copy was made of an object whose current stage is not the EOF
\* projection but follows it, and the copy has the basis that was computed
C10_Witness ==
    /\ last.op = "copy" /\ last.err = NoErr
    /\ objs[last.obj].exists /\ objs[3 - last.obj].exists
    /\ objs[last.obj]._curr_data_key # _EOFPROJ
    /\ DescendsFromEofProj(last.obj)
    /\ objs[last.obj]._eofs # <<>>
    /\ objs[last.obj]._eof_stats # EmptyDict
    /\ objs[3 - last.obj]._eofs = objs[last.obj]._eofs
    /\ objs[3 - last.obj]._eof_stats = objs[last.obj]._eof_stats

\* What C11 says of one call time_average_resample(key, k, s) on object i,
\* whose current series has N samples: a negative shift is refused and
\* changes nothing; otherwise the call succeeds, the output has
\* floor((N - s) / k) samples and the TIME coordinate has as many entries,
\* entry j being the old coordinate at index s + j*k
ResampleClaim(i, k, s) ==
    LET N == heap[objs[i].data].shape[1]
        old == objs[i].time_coord
        M == (N - s) \div k
    IN  IF s < 0
        THEN last'.err = "ValueError" /\ objs' = objs
        ELSE /\ last'.err = NoErr
             /\ heap'[objs'[i].data].shape[1] = M
             /\ Len(objs'[i].time_coord) = M
             /\ \A j \in 1..M : objs'[i].time_coord[j] = old[s + (j - 1) * k + 1]

\* C11: time_average_resample with block size k >= 1 and shift s >= 0 on a
\* series of N samples (s <= N) yields floor((N-s)/k) output samples and a
\* TIME coordinate of the same length whose entry i is the old coordinate at
\* index s + i*k, and s < 0 raises an error.  (The averaging itself is
\* np.mean over axis 1 of the series reshaped to (M, k, ...), so output
\* sample i is the mean of input samples s+i*k .. s+i*k+k-1 whenever the
\* reshape is accepted; the lengths decide whether it is.)
C11_ResampleLengthAndCoord ==
    [][\A i \in ObjIds : \A k \in AvgSizes, s \in Shifts :
          (/\ Resample(i, k, s)
           /\ objs[i]._leading_time
           /\ s <= heap[objs[i].data].shape[1])
          => ResampleClaim(i, k, s)]_vars

\* ceil(half / y) * y for the half window as the claim writes it, w / 2: the
\* least multiple e of the year length (at least 1) with e >= w / 2
TrimAsStated(window_size, year_len) ==
    LET yl == IF year_len < 1 THEN 1 ELSE year_len
    IN  CHOOSE e \in 0..(window_size + yl) :
            e % yl = 0 /\ 2 * e >= window_size /\ 2 * (e - yl) < window_size

\* the same with the half window taken as the integer window_size // 2
TrimOf(window_size, year_len) ==
    LET yl == IF year_len < 1 THEN 1 ELSE year_len
        half == window_size \div 2
    IN  CHOOSE e \in 0..(half + yl) : e % yl = 0 /\ e >= half /\ e - yl < half

\* what the call leaves for a trim of e samples: N - 2e as the sample count
\* (the length given to the saved bin and to timeShape) and the old TIME
\* coordinate sliced [e:-e]
TrimmedBy(e) ==
    /\ last.ret.edge_trim = e
    /\ last.ret.new_time_len = last.args.time_len - 2 * e
    /\ last.ret.new_time_coord =
           (IF e = 0 \/ last.args.time_len < 2 * e THEN <<>>
            ELSE [j \in 1..(last.args.time_len - 2 * e) |-> e + j])
    /\ last.args.window_size = 12 /\ last.args.year_len = 12 =>
           /\ last.ret.edge_trim = 12
           /\ last.ret.new_time_len = last.args.time_len - 24

\* C12 as stated: calc_running_mean with window w and samples-per-year y
\* (clamped to at least 1) trims e = ceil((w / 2) / y) * y samples from each
\* end: the output has N - 2e samples and the new TIME coordinate is the old
\* one sliced [e:-e]; for w = 12, y = 12 this gives e = 12 and N - 24 samples
C12_RunningMeanTrimAsStated ==
    last.op = "calc_running_mean" /\ last.obj = 0 =>
        TrimmedBy(TrimAsStated(last.args.window_size, last.args.year_len))

\* C12: calc_running_mean with window w and samples-per-year y (clamped to
\* at least 1) trims e = ceil((w // 2) / y) * y samples from each end, w // 2
\* being the integer half of the window: the output has N - 2e samples and
\* the new TIME coordinate is the old one sliced [e:-e]; for w = 12, y = 12
\* this gives e = 12 and N - 24 samples
C12_RunningMeanTrim ==
    last.op = "calc_running_mean" /\ last.obj = 0 =>
        TrimmedBy(TrimOf(last.args.window_size, last.args.year_len))

C12_Witness ==
    /\ last.op = "calc_running_mean" /\ last.obj = 0
    /\ last.args = [time_len |-> 26, window_size |-> 12, year_len |-> 12]
    /\ last.ret.edge_trim = 12
    /\ last.ret.new_time_len = 2
    /\ last.ret.new_time_coord = <<13, 14>>

\* the TIME coordinate of object i has one entry per sample of its data
CoordMatchesData(i) ==
    Len(objs[i].time_coord) = heap[objs[i].data].shape[1]

\* C13: for an object with a leading time axis, after every successfully
\* completed operation (construction, each transform with any legal
\* parameters, reset_data, copy) the TIME coordinate vector has the same
\* length as the sample axis of the current data
C13_CoordLengthIsSampleLength ==
    last.err = NoErr =>
        \A i \in ObjIds :
            objs[i].exists /\ objs[i]._leading_time => CoordMatchesData(i)

\* the masked array that has the values of d and is masked, at every time
\* sample, in the cells the external mask marks as not valid
MaskedCounterpart(d, valid_data) ==
    [d EXCEPT !.is_ma = TRUE,
              !.mask = [t \in DOMAIN d.vals |-> [s \in CellsOf(d) |->
                           ~valid_data.flat[s]]]]

\* C14: constructing from dense data plus an external valid-data mask whose
\* shape is the data's spatial shape succeeds, sets the cells outside the
\* mask to NaN, and ends with the same validMask and the same compressed
\* current data as constructing from the masked array with the same
\* missing cells
C14_ExternalMaskAsMaskedArray ==
    (/\ last.op = "__init__" /\ last.obj = 0
     /\ last.args.valid_data # NoMask
     /\ last.args.valid_data.shape = SpatialShape(last.args.data)
     /\ Len(last.args.data.shape) <= 4)
    => LET o == last.ret
           d == last.args.data
           m == InitFromData(MaskedCounterpart(d, last.args.valid_data),
                             NoMask, last.args.fill_value)
       IN  /\ o.err = NoErr
           /\ \A t \in DOMAIN d.vals : \A s \in CellsOf(d) :
                  ~last.args.valid_data.flat[s] => o.orig[t][s] = NaN
           /\ o.valid_data = m.valid_data
           /\ o.data = m.data

\* C15: for a masked-array input with a leading time axis and no external
\* mask, a spatial cell is marked invalid in validMask if and only if it is
\* masked at at least one time sample, whichever samples carry the mask
C15_InvalidIffMaskedAtSomeSample ==
    (/\ last.op = "__init__" /\ last.obj = 0
     /\ last.args.data.is_ma
     /\ last.args.data.leading_time
     /\ last.args.valid_data = NoMask
     /\ Len(last.args.data.shape) <= 4)
    => /\ last.err = NoErr
       /\ \A s \in CellsOf(last.args.data) :
              (last.ret.valid_data # NoMask /\ ~last.ret.valid_data[s])
              <=> \E t \in DOMAIN last.args.data.mask : last.args.data.mask[t][s]

\* a cell of a plain input is valid when at every time sample its value is
\* finite and differs from the fill value, when one is given
CellIsValid(d, fill_value, s) ==
    \A t \in DOMAIN d.vals :
        /\ d.vals[t][s] \notin {NaN, Inf}
        /\ fill_value = NoFill \/ d.vals[t][s] # fill_value

\* C16: for a plain array input with no external mask, validMask is None
\* and isMasked is false iff every cell is valid (finite and different from
\* the fill value at every time sample); otherwise validMask is a flat
\* boolean vector over the full spatial extent that marks the valid cells
C16_PlainArrayValidity ==
    (/\ last.op = "__init__" /\ last.obj = 0
     /\ ~last.args.data.is_ma
     /\ last.args.valid_data = NoMask
     /\ Len(last.args.data.shape) <= 4)
    => LET d == last.args.data
           o == last.ret
           all_valid == \A s \in CellsOf(d) : CellIsValid(d, last.args.fill_value, s)
       IN  /\ last.err = NoErr
           /\ (o.valid_data = NoMask) <=> all_valid
           /\ ~o.is_masked <=> all_valid
           /\ ~all_valid =>
                  /\ Len(o.valid_data) = Product(SpatialShape(d))
                  /\ \A s \in CellsOf(d) :
                         o.valid_data[s] <=> CellIsValid(d, last.args.fill_value, s)

C16_Witness ==
    /\ last.op = "__init__" /\ last.obj = 0 /\ last.err = NoErr
    /\ ~last.args.data.is_ma /\ last.args.data.leading_time
    /\ last.args.valid_data = NoMask
    /\ last.args.fill_value = FillValue
    /\ last.args.data.shape = <<NTimes, 2, NRowLen>>
    /\ last.args.data.vals[2][1] = FillValue
    /\ last.args.data.vals[1][2] = NaN
    /\ \E s \in CellsOf(last.args.data) : last.ret.valid_data[s]
    /\ ~last.ret.valid_data[1] /\ ~last.ret.valid_data[2]

\* a cell of an input grid is invalid when at some time sample it is masked,
\* not finite, or equal to the fill value
CellIsInvalid(a, s) ==
    \/ ~CellIsValid(a.data, a.fill_value, s)
    \/ a.data.is_ma /\ \E t \in DOMAIN a.data.mask : a.data.mask[t][s]

\* C17: for a grid with some invalid cells (1D or 2D spatial, with or
\* without a leading time axis), constructing the object and then calling
\* inflate_full_grid on the current data returns an array of full spatial
\* extent that equals the input at every valid cell and is NaN at every
\* invalid cell, and the call leaves the object's state unchanged
C17_InflateRestoresFullGrid ==
    (/\ last.op = "inflate_full_grid" /\ last.obj = 0
     /\ last.args.valid_data = NoMask
     /\ Len(SpatialShape(last.args.data)) <= 2
     /\ \E s \in CellsOf(last.args.data) : CellIsInvalid(last.args, s))
    => LET d == last.args.data
           full == last.ret.full
       IN  /\ last.err = NoErr
           /\ last.ret.after = last.ret.before
           /\ DOMAIN full = DOMAIN d.vals
           /\ \A t \in DOMAIN d.vals :
                  /\ Len(full[t]) = Product(SpatialShape(d))
                  /\ \A s \in CellsOf(d) :
                         full[t][s] = IF CellIsInvalid(last.args, s) THEN NaN
                                      ELSE d.vals[t][s]

\* C18: while save_none is set, no transform adds or replaces an entry of
\* dataBins: across every transform call the bins stay the same, so their
\* key set is the one construction left
C18_SaveNoneKeepsBins ==
    [][\A i \in ObjIds :
          (/\ objs[i].exists /\ objs[i]._save_none
           /\ last'.op \in Transforms /\ last'.obj = i)
          => objs'[i]._data_bins = objs[i]._data_bins]_vars

\* the number of features (columns) and of samples (rows) of a bin of object i
BinFeatures(i, key) == heap[objs[i]._data_bins[key]].shape[2]
BinSamples(i, key) == heap[objs[i]._data_bins[key]].shape[1]

\* What C19 says of a successful eof_proj_data call on object i that
\* computes its basis (no eof_in): the basis has one row per feature of the
\* basis stage, and the projection one row per sample of the target
EofStagesClaim(i, calc_on_key, proj_key) ==
    /\ (calc_on_key # NoneKey /\ calc_on_key \in DOMAIN objs[i]._data_bins)
           => objs'[i]._eofs[1] = BinFeatures(i, calc_on_key)
    /\ (calc_on_key = NoneKey /\ objs[i]._curr_data_key # _AWGHT)
           => objs'[i]._eofs[1] = BinFeatures(i, _AWGHT)
    /\ heap'[objs'[i].data].shape[1] =
           (IF proj_key # NoneKey THEN BinSamples(i, proj_key)
            ELSE IF calc_on_key = NoneKey /\ objs[i]._curr_data_key # _AWGHT
            THEN BinSamples(i, _AWGHT)
            ELSE heap[objs[i].data].shape[1])

\* C19: eof_proj_data computes its EOF basis from the bin named by
\* calc_on_key when one is given, and from the area-weighted stage when none
\* is given and that stage is not already current; the target projected is
\* the bin named by proj_key, or the current data when none is given
C19_EofBasisAndTargetStages ==
    [][\A i \in ObjIds : \A save \in Bool :
       \A calc_on_key \in CalcOnKeys, proj_key \in ProjKeys :
          (/\ EofProj(i, <<>>, save, calc_on_key, proj_key)
           /\ last'.err = NoErr)
          => EofStagesClaim(i, calc_on_key, proj_key)]_vars

\* the stage eof_proj_data projects: the bin named by proj_key, else the
\* area-weighted bin when the call resets to it, else the current data
TargetSamples(i, calc_on_key, proj_key) ==
    IF proj_key # NoneKey THEN BinSamples(i, proj_key)
    ELSE IF calc_on_key = NoneKey /\ objs[i]._curr_data_key # _AWGHT
    THEN BinSamples(i, _AWGHT)
    ELSE heap[objs[i].data].shape[1]

\* C20: a successful eof_proj_data retaining k modes yields current data of
\* shape (N, k), N the sample count of the target stage, k replaced by the
\* column count of an external basis; an external basis whose row count
\* differs from the feature count of the data raises the error and records
\* no EOF-projection stage
C20_EofProjectionShape ==
    [][\A i \in ObjIds : \A eof_in \in EofInputs, save \in Bool :
       \A calc_on_key \in CalcOnKeys, proj_key \in ProjKeys :
          EofProj(i, eof_in, save, calc_on_key, proj_key) =>
             /\ last'.err = NoErr =>
                    heap'[objs'[i].data].shape =
                        <<TargetSamples(i, calc_on_key, proj_key),
                          IF eof_in # <<>> THEN eof_in[2] ELSE NumEofs>>
             /\ (/\ objs[i]._leading_time
                 /\ eof_in # <<>>
                 /\ ~(calc_on_key = NoneKey /\ objs[i]._curr_data_key # _AWGHT)
                 /\ eof_in[1] # heap[objs[i].data].shape[2])
                    => /\ last'.err = "ValueError"
                       /\ objs'[i]._ops_performed = objs[i]._ops_performed
                       /\ objs'[i]._curr_data_key = objs[i]._curr_data_key]_vars

\* C21: constructing with a TIME coordinate whose axis index is not 0 raises
\* an error; with index 0 (and a coordinate of one entry per sample) the
\* object has a leading time axis, timeShape = [data.shape[0]] and the
\* supplied coordinate recorded as the time coordinate of the original
\* stage; without a TIME coordinate it has no leading time axis and
\* timeShape is empty
C21_TimeDimensionMustLead ==
    last.op = "__init__" /\ last.obj = 0 =>
        LET a == last.args
            o == last.ret
            has_time == a.dim_coords.given /\ TIME \in DOMAIN a.dim_coords.dict
        IN  /\ (has_time /\ a.dim_coords.dict[TIME][1] # 0) => last.err = "ValueError"
            /\ (/\ has_time
                /\ a.dim_coords.dict[TIME][1] = 0
                /\ Len(a.dim_coords.dict[TIME][2]) = a.shape[1])
                   => /\ last.err = NoErr
                      /\ o._leading_time
                      /\ o._time_shp = <<a.shape[1]>>
                      /\ o._altered_time_coords[_ORIGDATA] = a.dim_coords.dict[TIME][2]
            /\ ~has_time
                   => last.err = NoErr /\ ~o._leading_time /\ o._time_shp = <<>>

\* a call of a transform or of reset_data on object i
TransformOrReset(i) ==
    /\ objs[i].exists
    /\ last'.obj = i
    /\ last'.op \in Transforms \cup {"reset_data"}

\* the call was a transform asked to save its stage
SavingCall(i) ==
    \/ /\ last'.op = "time_average_resample"
       /\ \E k \in AvgSizes, shift \in Shifts : Resample(i, k, shift)
    \/ /\ last'.op = "calc_running_mean"
       /\ \E w \in Windows, y \in YearLens : RunningMean(i, w, y, TRUE)
    \/ last'.op = "calc_anomaly" /\ Anomaly(i, TRUE)
    \/ last'.op = "detrend_data" /\ Detrend(i, TRUE)
    \/ last'.op = "area_weight_data" /\ AreaWeight(i, TRUE)
    \/ last'.op = "standardize_data" /\ Standardize(i, TRUE)
    \/ /\ last'.op = "eof_proj_data"
       /\ \E eof_in \in EofInputs, ck \in CalcOnKeys, pk \in ProjKeys :
              EofProj(i, eof_in, TRUE, ck, pk)

\* a transform ran to its end on a stage whose key already had a bin
Rerun(i) ==
    /\ last'.op \in Transforms
    /\ last'.err = NoErr
    /\ objs'[i]._curr_data_key \in DOMAIN objs[i]._data_bins

\* the call allocates the bin of its stage: time_average_resample always,
\* the other transforms when asked to save on an object that keeps its
\* stages
Saves(i) ==
    \/ last'.op = "time_average_resample"
    \/ ~objs[i]._save_none /\ SavingCall(i)

\* no stage key is removed by the call, and reset_data leaves dataBins alone
KeysKept(i) ==
    /\ DOMAIN objs[i]._data_bins \subseteq DOMAIN objs'[i]._data_bins
    /\ last'.op = "reset_data" => objs'[i]._data_bins = objs[i]._data_bins

\* C22 as stated: over transform and reset_data calls dataBins is
\* append-only: no stage key is ever removed; re-running a stage puts
\* another buffer under its key; reset_data does not change dataBins
C22_RerunReplacesBuffer ==
    [][\A i \in ObjIds :
          TransformOrReset(i) =>
              /\ KeysKept(i)
              /\ Rerun(i) =>
                     objs'[i]._data_bins[objs'[i]._curr_data_key]
                         # objs[i]._data_bins[objs'[i]._curr_data_key]]_vars

\* C22: over transform and reset_data calls dataBins is append-only: no
\* stage key is ever removed; re-running a stage puts another buffer under
\* its key when the call saves its result and leaves dataBins as it is when
\* it does not; reset_data does not change dataBins
C22_DataBinsAppendOnly ==
    [][\A i \in ObjIds :
          TransformOrReset(i) =>
              /\ KeysKept(i)
              /\ (Rerun(i) /\ Saves(i)) =>
                     objs'[i]._data_bins[objs'[i]._curr_data_key]
                         # objs[i]._data_bins[objs'[i]._curr_data_key]
              /\ (Rerun(i) /\ ~Saves(i)) =>
                     objs'[i]._data_bins = objs[i]._data_bins]_vars

\* the resampled stage was computed twice on object 1, then the standardized
\* stage twice: first saved into its bin, then without saving, so that the
\* current data is not the buffer kept under the key
C22_Witness ==
    /\ last.op = "standardize_data" /\ last.obj = 1 /\ last.err = NoErr
    /\ objs[1]._curr_data_key = _STD
    /\ _STD \in DOMAIN objs[1]._data_bins
    /\ objs[1].data # objs[1]._data_bins[_STD]
    /\ _STD \in DOMAIN objs[1]._ops_performed
    /\ objs[1]._ops_performed[_STD] =
           <<_ORIGDATA, ResampleKey, ResampleKey, _STD, _STD>>

\* C23: reset_data with a key that has no bin raises a lookup error and
\* leaves the current data, the current stage key, timeShape and the TIME
\* coordinate as they were
C23_ResetToUnknownKey ==
    [][\A i \in ObjIds : \A key \in Keys :
          (/\ last'.op = "reset_data"
           /\ ResetData(i, key)
           /\ key \notin DOMAIN objs[i]._data_bins)
          => /\ last'.err = "KeyError"
             /\ objs'[i].data = objs[i].data
             /\ heap'[objs'[i].data] = heap[objs[i].data]
             /\ objs'[i]._curr_data_key = objs[i]._curr_data_key
             /\ objs'[i]._time_shp = objs[i]._time_shp
             /\ objs'[i].time_coord = objs[i].time_coord]_vars

\* a refused reset_data of an object with a time axis that a saved stage
\* had moved away from the original data
C23_Witness ==
    /\ last.op = "reset_data" /\ last.obj = 1 /\ last.err = "KeyError"
    /\ objs[1]._leading_time
    /\ objs[1]._curr_data_key # _ORIGDATA
    /\ objs[1]._curr_data_key \in DOMAIN objs[1]._data_bins
    /\ objs[1].data = objs[1]._data_bins[objs[1]._curr_data_key]

\* C24: inflate_full_grid given data whose length along the expand axis is
\* not the number of valid cells raises an error; given data of the right
\* length it returns an array whose expand axis has the full spatial
\* length; on an object that is not masked it returns no result; in all
\* three cases the object is unchanged
C24_InflateExplicitData ==
    (last.op = "inflate_full_grid" /\ last.obj = 0 /\ ~last.args.reshape_orig) =>
        LET a == last.args
            r == last.ret
            ax == PyAxis(a.expand_axis, Len(a.data_shape))
            nvalid == Cardinality({s \in 1..Len(a.obj.valid_data) : a.obj.valid_data[s]})
        IN  /\ r.o = a.obj
            /\ ~a.obj.is_masked => last.err = NoErr /\ r.ret = "None"
            /\ (a.obj.is_masked /\ a.data_shape[ax] # nvalid) => last.err = "ValueError"
            /\ (a.obj.is_masked /\ a.data_shape[ax] = nvalid)
                   => /\ last.err = NoErr
                      /\ r.ret = "array"
                      /\ Len(r.shape) = Len(a.data_shape)
                      /\ r.shape[ax] = Product(a.obj._spatial_shp)

\* C25: area_weight_data weights by the normalized cell area when cell
\* areas were supplied, by |cos(latitude)| when none were supplied and the
\* grid is regular with a latitude dimension; with no cell areas and an
\* irregular grid, or no cell areas and no latitude dimension, it raises a
\* configuration error before a bin is allocated or the stage changes
C25_AreaWeightSelection ==
    (last.op = "area_weight_data" /\ last.obj = 0) =>
        LET o == last.args.obj
            r == last.ret
            has_lat == o._dim_idx # <<>> /\ LAT \in DOMAIN o._dim_idx[1]
        IN  /\ o.cell_area # NoCellArea
                   => last.err = NoErr /\ r.scale = CellAreaFraction(o.cell_area)
            /\ (o.cell_area = NoCellArea /\ ~o.irregular_grid /\ has_lat)
                   => last.err = NoErr /\ r.scale = AbsCosLat(o._dim_coords[LAT][2])
            /\ (o.cell_area = NoCellArea /\ (o.irregular_grid \/ ~has_lat))
                   => last.err = "ValueError" /\ r.o = o

\* C26: with a leading time axis the chunk for a shape (N, spatial...), item
\* size b and byte budget B has the full spatial extent and the time length
\* min(N, floor(B / (b * product(spatial)))), and no more than B bytes;
\* without a leading time axis the chunk is the whole array when the array
\* fits in B, and has the same length along every axis otherwise
C26_ChunkShape ==
    last.op = "_determine_chunk" =>
        LET a == last.args
            chunk == last.ret
            B == a.size * MB
            bytes == Product(a.shape) * a.itemsize
        IN  /\ a.leading_time =>
                   /\ Tail(chunk) = Tail(a.shape)
                   /\ chunk[1] = Min(a.shape[1],
                                     B \div (a.itemsize * Product(Tail(a.shape))))
                   /\ Product(chunk) * a.itemsize <= B
            /\ (~a.leading_time /\ bytes <= B) => chunk = a.shape
            /\ (~a.leading_time /\ bytes > B) =>
                   /\ Len(chunk) = Len(a.shape)
                   /\ \A j, k \in 1..Len(chunk) : chunk[j] = chunk[k]

\* C27: for a units string whose reference year is Y <= 0 the year-zero
\* fallback returns, for every sample, a date whose year is Y plus the
\* decoded year minus 1, the decoded year being that of the same number
\* against reference year 0001; also for samples in the first year after
\* the reference
C27_YearZeroDecode ==
    last.op = "_handle_year_zero_units" =>
        /\ last.err = NoErr
        /\ DOMAIN last.ret.time_yrs_list = DOMAIN last.args.time_as_num
        /\ \A i \in DOMAIN last.args.time_as_num :
               last.ret.time_yrs_list[i].year
                   = last.args.year
                     + (num2date(last.args.time_as_num[i], last.args.calendar, 1).year - 1)

\* C28: for an object with a leading time axis, after any sequence of saved
\* transforms and resets, reset_data(K) succeeds for every key K that has a
\* bin: the coordinate resolved for K through its chain of operations has
\* as many entries as the bin of K has samples
C28_EveryBinCanBeRestored ==
    \A i \in ObjIds :
        (objs[i].exists /\ objs[i]._leading_time) =>
            \A K \in DOMAIN objs[i]._data_bins :
                reset_data(objs[i], heap, K).err = NoErr

\* C29: a reset_data call that fails while the time coordinate is resolved
\* (no ancestor with a recorded coordinate, or a coordinate whose length is
\* not the sample length of the bin) leaves the current data and the
\* current stage key as they were before the call
C29_FailedResetKeepsCurrentStage ==
    [][\A i \in ObjIds :
          (/\ objs[i].exists
           /\ last'.op = "reset_data"
           /\ last'.obj = i
           /\ last'.err \in {"IndexError", "ValueError"})
          => /\ objs'[i].data = objs[i].data
             /\ objs'[i]._curr_data_key = objs[i]._curr_data_key]_vars

\* C30: train_test_split_random with a non-empty list of sample lags returns
\* training indices disjoint from the test indices and from every lagged
\* test index, no training index t has t + lag among the test indices,
\* and every lagged test index lies within the series; with the default
\* sample_lags (None) the call completes and returns a split
C30_TrainTestSplit ==
    (/\ last.op = "train_test_split_random"
     /\ objs[last.obj]._leading_time
     /\ last.args.test_size.num < last.args.test_size.den * last.args.sample_len) =>
        LET lags == IF last.args.sample_lags = NoLags THEN <<>>
                    ELSE last.args.sample_lags[1]
            lagset == {lags[n] : n \in 1..Len(lags)}
            test == last.ret.test_indices
            train == {last.ret.train_indices[n] : n \in 1..Len(last.ret.train_indices)}
        IN  /\ (lagset # {} /\ last.err = NoErr) =>
                   /\ train \cap test = {}
                   /\ \A lag \in lagset :
                          /\ train \cap {t + lag : t \in test} = {}
                          /\ \A t \in train : t + lag \notin test
                          /\ \A t \in test : t + lag < last.args.sample_len
            /\ last.args.sample_lags = NoLags => last.err = NoErr
====
